---- MODULE Spec2Model ----
(***************************************************************************)
(* A model of azure-devops-release-notes: the command-line entry point     *)
(* (generate_release_notes.py), the gateway client                         *)
(* (src/azure_devops_client.py), the configuration object (src/config.py)  *)
(* and the markdown generator (src/markdown_generator.py).                 *)
(*                                                                         *)
(* Python values are represented as follows.                               *)
(*   - An Optional value is a sequence of length at most one: None is <<>> *)
(*     and a present value v is <<v>>.                                     *)
(*   - A str that the program inspects (strips, searches, sorts) is a      *)
(*     sequence of one-character strings; a str that it only carries       *)
(*     around is a TLA+ string.                                            *)
(*   - The outcome of a call is a record: whether it raised, the exception,*)
(*     the returned value and the network requests it issued.              *)
(***************************************************************************)
EXTENDS Integers, Sequences, FiniteSets, TLC

VARIABLES
    \* ---- one run of main (generate_release_notes.py) ----
    pc,             \* position of the run in main
    argv,           \* the command line and the environment of the run
    args,           \* Optional namespace that parse_args returned
    config,         \* Optional AzureDevOpsConfig of the run
    exit_status,    \* Optional process exit status
    error,          \* the exception that ended the run, NoExc if none
    steps,          \* the pipeline steps started so far, in order
    requests,       \* the network requests issued so far, in order
    responses,      \* what the remote service answered to each of them
    work_item_ids,  \* main's local work_item_ids
    work_items,     \* main's local work_items
    releases,       \* main's local releases
    contributors,   \* main's local contributors
    markdown,       \* Optional document returned by generate
    output_file,    \* Optional [path, content] written by main
    \* ---- one call of a gateway operation ----
    c_op,           \* the operation called last
    c_in,           \* its arguments and the responses of the remote service
    c_out,          \* its outcome
    \* ---- one call of the generator ----
    g_op,           \* the generator operation applied last
    g_in,           \* its arguments
    g_out           \* its outcome

mainVars == <<pc, argv, args, config, exit_status, error, steps, requests, responses,
              work_item_ids,
              work_items, releases, contributors, markdown, output_file>>
clientVars == <<c_op, c_in, c_out>>
genVars == <<g_op, g_in, g_out>>
vars == <<mainVars, clientVars, genVars>>

----------------------------------------------------------------------------
(* Bounds of the model. *)

MaxIds == 2         \* longest id sequence a query returns
MaxUpdates == 2     \* most revisions in the histories of one call, all ids together
MaxNotesLen == 3    \* longest raw notes string, in characters or in pieces
MaxReleases == 2    \* longest release list of one response
MaxItems == 2       \* longest work item list handed to the generator
MaxSteps == 2       \* most deployment steps of one environment

----------------------------------------------------------------------------
(* Optional values and sequences. *)

None == <<>>
Some(x) == <<x>>
IsNone(o) == Len(o) = 0
Get(o) == o[1]

Range(s) == {s[i] : i \in 1..Len(s)}

SeqsUpTo(S, n) == UNION {[1..k -> S] : k \in 0..n}

\* Sequences over S without repetition, of length at most n.
DistinctSeqs(S, n) ==
    {s \in SeqsUpTo(S, n) : \A i, j \in 1..Len(s) : i # j => s[i] # s[j]}

IsPrefix(s, t) == Len(s) <= Len(t) /\ \A i \in 1..Len(s) : s[i] = t[i]

----------------------------------------------------------------------------
(* Python str operations on sequences of characters. *)

WhitespaceChars == {" ", "\t", "\n", "\r"}

RECURSIVE LStrip(_)
LStrip(s) ==
    IF s # <<>> /\ Head(s) \in WhitespaceChars THEN LStrip(Tail(s)) ELSE s

RECURSIVE RStrip(_)
RStrip(s) ==
    IF s # <<>> /\ s[Len(s)] \in WhitespaceChars
    THEN RStrip(SubSeq(s, 1, Len(s) - 1))
    ELSE s

\* str.strip()
Strip(s) == RStrip(LStrip(s))

\* str.rstrip(c) for a one-character argument
RECURSIVE RStripChar(_, _)
RStripChar(s, c) ==
    IF s # <<>> /\ s[Len(s)] = c
    THEN RStripChar(SubSeq(s, 1, Len(s) - 1), c)
    ELSE s

\* pattern in s
Contains(s, pattern) ==
    \E i \in 1..(Len(s) - Len(pattern) + 1) :
        SubSeq(s, i, i + Len(pattern) - 1) = pattern

\* truthiness of an Optional[str]
Truthy(o) == ~IsNone(o) /\ Get(o) # <<>>

----------------------------------------------------------------------------
(* Exceptions and call outcomes. *)

NoExc == [type |-> "none", context |-> "", status |-> None,
          reason |-> None, body |-> None]

Exc(type) == [NoExc EXCEPT !.type = type]

Return(v, reqs) == [raised |-> FALSE, exc |-> NoExc, ret |-> v, reqs |-> reqs]
Raise(e, reqs) == [raised |-> TRUE, exc |-> e, ret |-> None, reqs |-> reqs]

----------------------------------------------------------------------------
(* The remote service: what urlopen and json.loads make of one request. *)

OkResponse(value) ==
    [kind |-> "ok", value |-> value, code |-> 0, reason |-> "", body |-> ""]
HttpErrorResponse(code, reason, body) ==
    [kind |-> "http_error", value |-> None, code |-> code, reason |-> reason,
     body |-> body]
UrlErrorResponse(reason) ==
    [kind |-> "url_error", value |-> None, code |-> 0, reason |-> reason,
     body |-> ""]
\* a 2xx answer whose body json.loads rejects
MalformedResponse ==
    [kind |-> "malformed", value |-> None, code |-> 0, reason |-> "", body |-> ""]

\* The exception the with-block raises on a response that is not usable.
ResponseError(resp) ==
    CASE resp.kind = "http_error" ->
            [type |-> "HTTPError", context |-> "", status |-> Some(resp.code),
             reason |-> Some(resp.reason), body |-> Some(resp.body)]
      [] resp.kind = "url_error" ->
            [type |-> "URLError", context |-> "", status |-> None,
             reason |-> Some(resp.reason), body |-> None]
      [] OTHER -> Exc("JSONDecodeError")

Request(endpoint, arg) == [endpoint |-> endpoint, arg |-> arg]

\* dict.get(key) and dict.get(key, default) on a dict given as a function
DictGet(d, key) == IF key \in DOMAIN d THEN Some(d[key]) ELSE None
DictGetOr(d, key, default) == IF key \in DOMAIN d THEN d[key] ELSE default

----------------------------------------------------------------------------
(* src/models.py *)

WorkItem(id, title, type, state, iteration_path, notes) ==
    [id |-> id, title |-> title, type |-> type, state |-> state,
     iteration_path |-> iteration_path, notes |-> notes]

Release(microservice, version, prod_deploy_time, release_id, definition_id) ==
    [microservice |-> microservice, version |-> version,
     prod_deploy_time |-> prod_deploy_time, release_id |-> release_id,
     definition_id |-> definition_id]

NA == <<"N", "/", "A">>
Unknown == <<"U", "n", "k", "n", "o", "w", "n">>

----------------------------------------------------------------------------
(* src/azure_devops_client.py *)

SYSTEM_ACCOUNT_PATTERNS ==
    << <<"M", "i", "c", "r", "o", "s", "o", "f", "t", ".", "V", "i", "s", "u",
         "a", "l", "S", "t", "u", "d", "i", "o", ".", "S", "e", "r", "v", "i",
         "c", "e", "s">>,
       <<"P", "r", "o", "j", "e", "c", "t", " ", "C", "o", "l", "l", "e", "c",
         "t", "i", "o", "n", " ", "B", "u", "i", "l", "d", " ", "S", "e", "r",
         "v", "i", "c", "e">>,
       <<"<">>,
       <<">">> >>

AzureDevOpsClient(organization_url, project, pat, release_field, notes_field, prod_env) ==
    [organization_url |-> organization_url, project |-> project, pat |-> pat,
     release_field |-> release_field, notes_field |-> notes_field,
     production_environment |-> prod_env]

\* A variant whose RuntimeError names the context only.
_handle_api_error_context_only(err, context, reqs) ==
    IF err.type \in {"HTTPError", "URLError"}
    THEN Raise([Exc("RuntimeError") EXCEPT !.context = context], reqs)
    ELSE Raise(err, reqs)

_handle_api_error(err, context, reqs) ==
    IF err.type = "HTTPError"
    THEN Raise([type |-> "RuntimeError", context |-> context,
                status |-> err.status, reason |-> err.reason,
                body |-> err.body], reqs)
    ELSE IF err.type = "URLError"
    THEN Raise([type |-> "RuntimeError", context |-> context,
                status |-> None, reason |-> err.reason, body |-> None], reqs)
    ELSE Raise(err, reqs)

query_work_item_ids(self, release_number, resp) ==
    LET reqs == <<Request("wiql", <<self.release_field, release_number>>)>>
    IN  IF resp.kind = "ok"
        THEN Return(resp.value, reqs)
        ELSE IF resp.kind \in {"http_error", "url_error"}
        THEN _handle_api_error(ResponseError(resp), "querying work items", reqs)
        ELSE Raise(ResponseError(resp), reqs)

\* A variant that keeps the whitespace around the notes.
_parse_notes_field_unstripped(raw_notes) ==
    IF ~Truthy(raw_notes) THEN None ELSE raw_notes

_parse_notes_field(raw_notes) ==
    IF ~Truthy(raw_notes)
    THEN None
    ELSE LET cleaned_notes == Strip(Get(raw_notes))
         IN  IF cleaned_notes # <<>> THEN Some(cleaned_notes) ELSE None

_parse_work_items(self, result) ==
    [i \in 1..Len(result) |->
        LET fields == result[i].fields
        IN  WorkItem(DictGet(fields, "System.Id"),
                     DictGet(fields, "System.Title"),
                     DictGet(fields, "System.WorkItemType"),
                     DictGet(fields, "System.State"),
                     DictGetOr(fields, "System.IterationPath", NA),
                     _parse_notes_field(DictGet(fields, self.notes_field)))]

_build_work_items_url(self, ids) ==
    Request("workitems",
            [ids |-> ids,
             fields |-> <<"System.Id", "System.Title", "System.WorkItemType",
                          "System.State", "System.IterationPath",
                          self.notes_field>>])

\* A variant without the early return for an empty list.
get_work_item_details_unguarded(self, ids, resp) ==
    LET reqs == <<_build_work_items_url(self, ids)>>
    IN  IF resp.kind = "ok"
        THEN Return(_parse_work_items(self, resp.value), reqs)
        ELSE _handle_api_error(ResponseError(resp), "getting work item details", reqs)

get_work_item_details(self, ids, resp) ==
    IF ids = <<>>
    THEN Return(<<>>, <<>>)
    ELSE LET reqs == <<_build_work_items_url(self, ids)>>
         IN  IF resp.kind = "ok"
             THEN Return(_parse_work_items(self, resp.value), reqs)
             ELSE IF resp.kind \in {"http_error", "url_error"}
             THEN _handle_api_error(ResponseError(resp),
                                    "getting work item details", reqs)
             ELSE Raise(ResponseError(resp), reqs)

\* A JSON member of an update: not there, null, or an object.
JsonMissing == [tag |-> "missing"]
JsonNull == [tag |-> "null"]
JsonRevisedBy(displayName) == [tag |-> "object", displayName |-> displayName]
Update(revisedBy) == [revisedBy |-> revisedBy]

\* A variant that knows the first pattern only.
_is_system_account_first_pattern(display_name) ==
    Contains(display_name, SYSTEM_ACCOUNT_PATTERNS[1])

_is_system_account(display_name) ==
    \E i \in 1..Len(SYSTEM_ACCOUNT_PATTERNS) :
        Contains(display_name, SYSTEM_ACCOUNT_PATTERNS[i])

\* update.get('revisedBy', {}) is None for a null member, and None has no get.
_extract_contributor(update) ==
    IF update.revisedBy.tag = "null"
    THEN Raise(Exc("AttributeError"), <<>>)
    ELSE LET display_name ==
                 IF update.revisedBy.tag = "missing"
                 THEN None
                 ELSE update.revisedBy.displayName
         IN  IF Truthy(display_name) /\ ~_is_system_account(Get(display_name))
             THEN Return(display_name, <<>>)
             ELSE Return(None, <<>>)

_fetch_work_item_updates(self, work_item_id, resp) ==
    LET reqs == <<Request("updates", work_item_id)>>
    IN  IF resp.kind = "ok"
        THEN Return(resp.value, reqs)
        ELSE Raise(ResponseError(resp), reqs)

\* The inner loop of get_work_item_contributors over the updates of one id: it
\* adds to the set as it goes and ends at the first update that raises.
RECURSIVE AddContributors(_, _)
AddContributors(contribs, updates) ==
    IF updates = <<>>
    THEN contribs
    ELSE LET contributor == _extract_contributor(Head(updates))
         IN  IF contributor.raised
             THEN contribs
             ELSE AddContributors(
                      IF ~IsNone(contributor.ret)
                      THEN contribs \cup {Get(contributor.ret)}
                      ELSE contribs,
                      Tail(updates))

\* The loop of get_work_item_contributors; history[id] is the response to the
\* request for the updates of id.
RECURSIVE ContributorsLoop(_, _, _, _, _)
ContributorsLoop(self, ids, history, contribs, reqs) ==
    IF ids = <<>>
    THEN Return(contribs, reqs)
    ELSE LET updates == _fetch_work_item_updates(self, Head(ids), history[Head(ids)])
         IN  ContributorsLoop(self, Tail(ids), history,
                              IF updates.raised
                              THEN contribs
                              ELSE AddContributors(contribs, updates.ret),
                              reqs \o updates.reqs)

get_work_item_contributors(self, ids, history) ==
    IF ids = <<>>
    THEN Return({}, <<>>)
    ELSE ContributorsLoop(self, ids, history, {}, <<>>)

\* A variant that takes the first environment with steps, whatever its name.
_extract_prod_deployment_time_any_name(self, release_data) ==
    LET environments == release_data.environments
        hits == {i \in 1..Len(environments) : environments[i].deploySteps # <<>>}
    IN  IF hits = {}
        THEN None
        ELSE LET first == CHOOSE i \in hits : \A j \in hits : i <= j
                 deploy_steps == environments[first].deploySteps
             IN  deploy_steps[Len(deploy_steps)].lastModifiedOn

_extract_prod_deployment_time(self, release_data) ==
    LET environments == release_data.environments
        hits == {i \in 1..Len(environments) :
                    /\ environments[i].name = self.production_environment
                    /\ environments[i].deploySteps # <<>>}
    IN  IF hits = {}
        THEN None
        ELSE LET first == CHOOSE i \in hits : \A j \in hits : i <= j
                 deploy_steps == environments[first].deploySteps
             IN  deploy_steps[Len(deploy_steps)].lastModifiedOn

_parse_classic_release(self, release_data) ==
    LET definition == release_data.releaseDefinition
    IN  Release(IF IsNone(definition) \/ IsNone(Get(definition).name)
                THEN Unknown
                ELSE Get(Get(definition).name),
                IF IsNone(release_data.name) THEN "Unknown" ELSE Get(release_data.name),
                _extract_prod_deployment_time(self, release_data),
                IF IsNone(release_data.id) THEN "" ELSE Get(release_data.id),
                IF IsNone(definition) \/ IsNone(Get(definition).id)
                THEN ""
                ELSE Get(Get(definition).id))

_get_classic_releases(self, release_tag, resp) ==
    LET reqs == <<Request("releases", release_tag)>>
    IN  IF resp.kind = "ok"
        THEN Return([i \in 1..Len(resp.value) |->
                        _parse_classic_release(self, resp.value[i])], reqs)
        ELSE Raise(ResponseError(resp), reqs)

\* A variant that stamps every build with a production timestamp.
_get_releases_from_builds_stamped(self, release_tag, resp) ==
    LET reqs == <<Request("builds", release_tag)>>
    IN  IF resp.kind = "ok"
        THEN Return([i \in 1..Len(resp.value) |->
                        Release(Unknown, "Unknown",
                                Some(<<"2", "0", "2", "5", "-", "1", "1", "-", "0", "6">>),
                                "", "")], reqs)
        ELSE Return(<<>>, reqs)

_get_releases_from_builds(self, release_tag, resp) ==
    LET reqs == <<Request("builds", release_tag)>>
    IN  IF resp.kind = "ok"
        THEN Return([i \in 1..Len(resp.value) |->
                        LET build == resp.value[i]
                        IN  Release(IF IsNone(build.definition)
                                       \/ IsNone(Get(build.definition).name)
                                    THEN Unknown
                                    ELSE Get(Get(build.definition).name),
                                    IF IsNone(build.buildNumber)
                                    THEN "Unknown"
                                    ELSE Get(build.buildNumber),
                                    None, "", "")], reqs)
        ELSE Return(<<>>, reqs)

\* A variant without the fallback.
get_releases_classic_only(self, release_tag, classic_resp, builds_resp) ==
    _get_classic_releases(self, release_tag, classic_resp)

\* A variant that also falls back when the classic tier finds no release.
get_releases_fallback_on_empty(self, release_tag, classic_resp, builds_resp) ==
    LET classic == _get_classic_releases(self, release_tag, classic_resp)
    IN  IF ~classic.raised /\ classic.ret # <<>>
        THEN classic
        ELSE LET builds == _get_releases_from_builds(self, release_tag, builds_resp)
             IN  [builds EXCEPT !.reqs = classic.reqs \o builds.reqs]

get_releases(self, release_tag, classic_resp, builds_resp) ==
    LET classic == _get_classic_releases(self, release_tag, classic_resp)
    IN  IF ~classic.raised
        THEN classic
        ELSE LET builds == _get_releases_from_builds(self, release_tag, builds_resp)
             IN  [builds EXCEPT !.reqs = classic.reqs \o builds.reqs]

----------------------------------------------------------------------------
(* The inputs of the gateway operations: arguments and remote responses. *)

Ids == 1..MaxIds
IdSeqs == DistinctSeqs(Ids, MaxIds)

Bug == <<"B", "u", "g">>
Task == <<"T", "a", "s", "k">>
Chore == <<"C", "h", "o", "r", "e">>

ErrorResponses ==
    {HttpErrorResponse(401, "Unauthorized", "denied"),
     HttpErrorResponse(500, "Server Error", "oops"),
     UrlErrorResponse("timed out"),
     MalformedResponse}

\* Raw notes: every string over the alphabet up to the bound, and no value.
NotesAlphabet == {" ", "\n", "a", "<"}
RawNotes == {None} \cup {Some(s) : s \in SeqsUpTo(NotesAlphabet, MaxNotesLen)}

\* The title the remote service holds for a work item: title order is the
\* reverse of identifier order.
TitleOf(id) == <<"t">> \o [i \in 1..(MaxIds + 1 - id) |-> "x"]

SampleNotes == {Some(<<" ">>), Some(<<" ", "a", "\n">>)}

\* One item of a detail response: the members the service always sends, and
\* any of the optional ones.
EmptyDict == [k \in {} |-> 0]

DetailItems(id) ==
    {[id |-> id,
      fields |-> ("System.Title" :> TitleOf(id)) @@ ("System.State" :> "Done")
                     @@ sid @@ typ @@ nts] :
        sid \in {EmptyDict, "System.Id" :> id},
        typ \in {EmptyDict} \cup {"System.WorkItemType" :> ty : ty \in {Bug, Task}},
        nts \in {EmptyDict} \cup {"Custom.Notes" :> Get(n) : n \in SampleNotes}}

\* The detail responses to a request for ids: one item per id, in any order
\* the service likes, or an error.
RECURSIVE ItemSeqs(_)
ItemSeqs(ids) ==
    IF ids = <<>>
    THEN {<<>>}
    ELSE {<<item>> \o rest : item \in DetailItems(Head(ids)), rest \in ItemSeqs(Tail(ids))}

DetailResponses(ids) ==
    ErrorResponses \cup {OkResponse(items) : items \in ItemSeqs(ids)}

Alice == <<"A", "l">>
Bob == <<"B", "o">>
TfsService == SYSTEM_ACCOUNT_PATTERNS[1] \o <<".", "T", "F", "S">>
AliceWithAddress == Alice \o <<" ", "<", "a", ">">>

Updates ==
    {Update(JsonNull)}
        \cup {Update(JsonRevisedBy(n)) :
                n \in {Some(<<>>), Some(Alice), Some(Bob), Some(TfsService),
                      Some(AliceWithAddress)}}

\* The responses to the requests for the updates of the ids of idset, with at
\* most budget updates in all.
RECURSIVE Histories(_, _)
Histories(idset, budget) ==
    IF idset = {}
    THEN {<<>>}
    ELSE LET id == CHOOSE i \in idset : \A j \in idset : i <= j
         IN  UNION {{(id :> r) @@ h : h \in Histories(idset \ {id},
                                          IF r.kind = "ok" THEN budget - Len(r.value)
                                          ELSE budget)} :
                       r \in {UrlErrorResponse("timed out")}
                             \cup {OkResponse(us) : us \in SeqsUpTo(Updates, budget)}}

November6 == <<"2", "0", "2", "5", "-", "1", "1", "-", "0", "6", "T", "1", "1", ":", "3", "9", ":", "1", "4", ".", "6", "6", "7", "Z">>
December1 == <<"2", "0", "2", "5", "-", "1", "2", "-", "0", "1", "T", "0", "8", ":", "0", "0", ":", "0", "0", "Z">>
Timestamps == {November6, December1}

Environments ==
    {[name |-> n, deploySteps |-> steps_] :
        n \in {"PROD", "QA"},
        steps_ \in SeqsUpTo({[lastModifiedOn |-> Some(t)] : t \in Timestamps}, 1)}

Svc(n) == <<"s", "v", "c">> \o [i \in 1..n |-> "x"]

ReleaseData ==
    {[releaseDefinition |-> Some([name |-> Some(Svc(1)), id |-> Some("456")]),
      name |-> Some("Release-1"), id |-> Some("789"), environments |-> envs] :
        envs \in SeqsUpTo(Environments, 1)}
    \cup {[releaseDefinition |-> None, name |-> None, id |-> None,
           environments |-> <<>>]}

ClassicResponses ==
    ErrorResponses \cup {OkResponse(rs) : rs \in SeqsUpTo(ReleaseData, MaxReleases)}

Builds ==
    {[definition |-> Some([name |-> Some(Svc(2))]), buildNumber |-> Some("20251106.1")],
     [definition |-> None, buildNumber |-> None]}

BuildsResponses ==
    ErrorResponses \cup {OkResponse(bs) : bs \in SeqsUpTo(Builds, MaxReleases)}

\* The client as the tests construct it: the defaults of __init__.
TestClient ==
    AzureDevOpsClient(<<"o">>, <<"p">>, <<"t">>, "Custom.Release", "Custom.Notes", "PROD")

ReleaseLabel == "2025.006"

----------------------------------------------------------------------------
(* The gateway operations, each called on its own with any arguments and any *)
(* behaviour of the remote service.                                          *)

MainIdle ==
    /\ pc = "idle"
    /\ argv = <<>>
    /\ args = None
    /\ config = None
    /\ exit_status = None
    /\ error = NoExc
    /\ steps = <<>>
    /\ requests = <<>>
    /\ responses = <<>>
    /\ work_item_ids = <<>>
    /\ work_items = <<>>
    /\ releases = <<>>
    /\ contributors = {}
    /\ markdown = None
    /\ output_file = None

ClientIdle ==
    /\ c_op = "none"
    /\ c_in = <<>>
    /\ c_out = <<>>

GenIdle ==
    /\ g_op = "none"
    /\ g_in = <<>>
    /\ g_out = <<>>

CallQueryWorkItemIds ==
    /\ c_op = "none"
    /\ \E resp \in ErrorResponses \cup {OkResponse(ids) : ids \in IdSeqs} :
        /\ c_op' = "query_work_item_ids"
        /\ c_in' = [release_number |-> ReleaseLabel, resp |-> resp]
        /\ c_out' = query_work_item_ids(TestClient, ReleaseLabel, resp)
        /\ UNCHANGED <<mainVars, genVars>>

CallGetWorkItemDetails ==
    /\ c_op = "none"
    /\ \E ids \in IdSeqs :
        \E resp \in DetailResponses(ids) :
            /\ c_op' = "get_work_item_details"
            /\ c_in' = [ids |-> ids, resp |-> resp]
            /\ c_out' = get_work_item_details(TestClient, ids, resp)
            /\ UNCHANGED <<mainVars, genVars>>

CallParseNotesField ==
    /\ c_op = "none"
    /\ \E raw_notes \in RawNotes :
        /\ c_op' = "_parse_notes_field"
        /\ c_in' = [raw_notes |-> raw_notes]
        /\ c_out' = Return(_parse_notes_field(raw_notes), <<>>)
        /\ UNCHANGED <<mainVars, genVars>>

\* Normalizing notes that _parse_notes_field has returned.
CallParseNotesFieldAgain ==
    /\ c_op = "_parse_notes_field"
    /\ c_op' = "_parse_notes_field again"
    /\ c_in' = [raw_notes |-> c_out.ret]
    /\ c_out' = Return(_parse_notes_field(c_out.ret), <<>>)
    /\ UNCHANGED <<mainVars, genVars>>

CallGetReleases ==
    /\ c_op = "none"
    /\ \E classic_resp \in ClassicResponses, builds_resp \in BuildsResponses :
        /\ c_op' = "get_releases"
        /\ c_in' = [release_tag |-> ReleaseLabel, classic_resp |-> classic_resp,
                    builds_resp |-> builds_resp]
        /\ c_out' = get_releases(TestClient, ReleaseLabel, classic_resp, builds_resp)
        /\ UNCHANGED <<mainVars, genVars>>

CallGetWorkItemContributors ==
    /\ c_op = "none"
    /\ \E ids \in IdSeqs :
        \E history \in Histories(Range(ids), MaxUpdates) :
            /\ c_op' = "get_work_item_contributors"
            /\ c_in' = [ids |-> ids, history |-> history]
            /\ c_out' = get_work_item_contributors(TestClient, ids, history)
            /\ UNCHANGED <<mainVars, genVars>>

\* The environments of one release: their names differ, each has up to
\* MaxSteps deployment steps.
StagedEnvironments ==
    {[name |-> n, deploySteps |-> steps_] :
        n \in {"PROD", "QA"},
        steps_ \in SeqsUpTo({[lastModifiedOn |-> Some(t)] : t \in Timestamps}, MaxSteps)}

StagedEnvironmentLists ==
    {envs \in SeqsUpTo(StagedEnvironments, 2) :
        \A i, j \in 1..Len(envs) : envs[i].name = envs[j].name => i = j}

CallExtractProdDeploymentTime ==
    /\ c_op = "none"
    /\ \E envs \in StagedEnvironmentLists :
        /\ c_op' = "_extract_prod_deployment_time"
        /\ c_in' = [environments |-> envs]
        /\ c_out' = Return(_extract_prod_deployment_time(TestClient,
                                                         [environments |-> envs]), <<>>)
        /\ UNCHANGED <<mainVars, genVars>>

\* The methods of the class AzureDevOpsClient. Looking up any other name on
\* a client raises AttributeError, before anything is called.
AzureDevOpsClientMethods ==
    {"__init__", "query_work_item_ids", "get_work_item_details", "get_releases",
     "get_work_item_contributors", "_create_auth_header", "_handle_api_error",
     "_build_work_items_url", "_parse_work_items", "_parse_notes_field",
     "_fetch_work_item_updates", "_extract_contributor", "_is_system_account",
     "_get_classic_releases", "_get_vsrm_url", "_parse_classic_release",
     "_extract_prod_deployment_time", "_get_releases_from_builds"}

GetMethod(self, name) ==
    IF name \in AzureDevOpsClientMethods
    THEN Return(name, <<>>)
    ELSE Raise(Exc("AttributeError"), <<>>)

\* The relation lists of a work item: missing, empty, with a related link,
\* with a parent link whose URL ends in the parent's identifier.
RelatedLink ==
    [rel |-> "System.LinkTypes.Related", url |-> <<"workitems", 67890>>]
ParentLink ==
    [rel |-> "System.LinkTypes.Hierarchy-Reverse", url |-> <<"workitems", 12345>>]

RelationLists ==
    {None, Some(<<>>), Some(<<RelatedLink>>), Some(<<ParentLink>>),
     Some(<<RelatedLink, ParentLink>>)}

\* client._extract_parent_id(relations): the lookup of the method comes first.
CallExtractParentId ==
    /\ c_op = "none"
    /\ \E relations \in RelationLists :
        /\ c_op' = "_extract_parent_id"
        /\ c_in' = [relations |-> relations]
        /\ c_out' = GetMethod(TestClient, "_extract_parent_id")
        /\ UNCHANGED <<mainVars, genVars>>

ClientInit == MainIdle /\ ClientIdle /\ GenIdle

ClientNext ==
    \/ CallQueryWorkItemIds
    \/ CallGetWorkItemDetails
    \/ CallParseNotesField
    \/ CallParseNotesFieldAgain
    \/ CallGetReleases
    \/ CallGetWorkItemContributors
    \/ CallExtractProdDeploymentTime
    \/ CallExtractParentId

SpecClient == ClientInit /\ [][ClientNext]_vars

----------------------------------------------------------------------------
(* Python's order on str: by code point, a proper prefix first. *)

\* The printable ASCII characters, from code point 32 on; the three that a
\* TLA+ string cannot hold are spelled out and match no character.
AsciiPrintable ==
    <<" ", "!", "DQUOTE", "#", "$", "%", "&", "'", "(", ")", "*", "+", ",", "-",
      ".", "/", "0", "1", "2", "3", "4", "5", "6", "7", "8", "9", ":", ";",
      "<", "=", ">", "?", "@", "A", "B", "C", "D", "E", "F", "G", "H", "I",
      "J", "K", "L", "M", "N", "O", "P", "Q", "R", "S", "T", "U", "V", "W",
      "X", "Y", "Z", "[", "BACKSLASH", "]", "^", "_", "BACKTICK", "a", "b", "c", "d", "e",
      "f", "g", "h", "i", "j", "k", "l", "m", "n", "o", "p", "q", "r", "s",
      "t", "u", "v", "w", "x", "y", "z", "{", "|", "}", "~">>

Ord(c) == 31 + (CHOOSE i \in 1..Len(AsciiPrintable) : AsciiPrintable[i] = c)

StrLess(a, b) ==
    \E i \in 1..Len(b) :
        /\ i <= Len(a) + 1
        /\ \A j \in 1..(i - 1) : a[j] = b[j]
        /\ i <= Len(a) => Ord(a[i]) < Ord(b[i])

\* A variant that keeps the input order.
StableSort_input_order(seq, before) ==
    seq

\* sorted(seq, key=...): stable; before holds the pairs <<a, b>> of elements
\* of seq with the key of a less than the key of b.
StableSort(seq, before) ==
    LET n == Len(seq)
        rank(i) == 1 + Cardinality({j \in 1..n :
                        \/ <<seq[j], seq[i]>> \in before
                        \/ (<<seq[i], seq[j]>> \notin before /\ j < i)})
    IN  [p \in 1..n |-> seq[CHOOSE i \in 1..n : rank(i) = p]]

\* sorted(S) for a set S of str
SortedStrings(S) ==
    LET rank(x) == 1 + Cardinality({y \in S : StrLess(y, x)})
    IN  [p \in 1..Cardinality(S) |-> CHOOSE x \in S : rank(x) = p]

----------------------------------------------------------------------------
(* src/markdown_generator.py *)
(* The document is the sequence of the lines that generate joins; a line is *)
(* a record of its kind and of the values it is formatted from.             *)

Epic == <<"E", "p", "i", "c">>
Feature == <<"F", "e", "a", "t", "u", "r", "e">>
UserStory == <<"U", "s", "e", "r", " ", "S", "t", "o", "r", "y">>
Issue == <<"I", "s", "s", "u", "e">>
ProductBacklogItem == <<"P", "r", "o", "d", "u", "c", "t", " ", "B", "a", "c", "k", "l", "o", "g", " ", "I", "t", "e", "m">>
Impediment == <<"I", "m", "p", "e", "d", "i", "m", "e", "n", "t">>

WORK_ITEM_TYPE_ORDER == <<Bug, Epic, Feature, UserStory, Task>>

WORK_ITEM_TYPE_EMOJIS ==
    (Bug :> "bug") @@ (Epic :> "blue book") @@ (Feature :> "sparkles")
        @@ (UserStory :> "memo") @@ (Task :> "wrench") @@ (Issue :> "warning")
        @@ (ProductBacklogItem :> "clipboard") @@ (Impediment :> "construction")

MarkdownGenerator(organization_url, project) ==
    [organization_url |-> organization_url, project |-> project]

BlankLine == [kind |-> "blank"]
Heading(level, text) == [kind |-> "heading", level |-> level, text |-> text]

\* A variant that gives every type the fallback icon.
_get_work_item_type_emoji_fallback_only(work_type) ==
    "pushpin"

\* work_type is an Optional[str]: the type of an item may be None.
_get_work_item_type_emoji(work_type) ==
    IF ~IsNone(work_type) /\ Get(work_type) \in DOMAIN WORK_ITEM_TYPE_EMOJIS
    THEN WORK_ITEM_TYPE_EMOJIS[Get(work_type)]
    ELSE "pushpin"

_build_work_item_url(self, work_item_id) ==
    [organization_url |-> self.organization_url, project |-> self.project,
     path |-> "_workitems/edit", id |-> work_item_id]

\* A variant that keeps the first item of each type only.
_group_work_items_by_type_first_only(items) ==
    [t \in {items[i].type : i \in 1..Len(items)} |->
        <<items[CHOOSE i \in 1..Len(items) :
                   items[i].type = t /\ \A j \in 1..(i - 1) : items[j].type # t]>>]

\* The dict of _group_work_items_by_type: its keys are the types, each mapped
\* to the items of the type in input order.
_group_work_items_by_type(items) ==
    [t \in {items[i].type : i \in 1..Len(items)} |->
        SelectSeq(items, LAMBDA item : item.type = t)]

\* A variant that keeps the input order.
SortedById_input_order(items) ==
    Return(items, <<>>)

\* sorted(items, key=lambda x: x.id): comparing None with anything raises.
SortedById(items) ==
    IF Len(items) < 2
    THEN Return(items, <<>>)
    ELSE IF \E i \in 1..Len(items) : IsNone(items[i].id)
    THEN Raise(Exc("TypeError"), <<>>)
    ELSE Return(StableSort(items, {p \in Range(items) \X Range(items) :
                                      Get(p[1].id) < Get(p[2].id)}), <<>>)

\* A variant that sorts the keys in descending order.
SortedTypes_descending(grouped_items) ==
    LET sorted == SortedStrings({Get(k) : k \in DOMAIN grouped_items})
    IN  Return([i \in 1..Len(sorted) |-> Some(sorted[Len(sorted) + 1 - i])], <<>>)

\* sorted(grouped_items.keys()): comparing None with a str raises.
SortedTypes(grouped_items) ==
    LET keys == DOMAIN grouped_items
    IN  IF Cardinality(keys) >= 2 /\ None \in keys
        THEN Raise(Exc("TypeError"), <<>>)
        ELSE IF keys = {None}
        THEN Return(<<None>>, <<>>)
        ELSE LET sorted == SortedStrings({Get(k) : k \in keys})
             IN  Return([i \in 1..Len(sorted) |-> Some(sorted[i])], <<>>)

\* The known types that have items, in the order of WORK_ITEM_TYPE_ORDER.
KnownTypes(grouped_items) ==
    SelectSeq([i \in 1..Len(WORK_ITEM_TYPE_ORDER) |-> Some(WORK_ITEM_TYPE_ORDER[i])],
              LAMBDA t : t \in DOMAIN grouped_items)

\* The other types, out of the sorted keys.
OtherTypes(sorted_types) ==
    SelectSeq(sorted_types,
              LAMBDA t : IsNone(t) \/ Get(t) \notin Range(WORK_ITEM_TYPE_ORDER))

_add_work_items_for_type(self, lines, work_type, items) ==
    LET sorted_items == SortedById(items)
        header == <<[kind |-> "group", emoji |-> _get_work_item_type_emoji(work_type),
                     type |-> work_type, count |-> Len(items)],
                    BlankLine>>
    IN  IF sorted_items.raised
        THEN sorted_items
        ELSE Return(lines \o header
                        \o [i \in 1..Len(items) |->
                              [kind |-> "item", id |-> sorted_items.ret[i].id,
                               url |-> _build_work_item_url(self, sorted_items.ret[i].id),
                               title |-> sorted_items.ret[i].title]]
                        \o <<BlankLine>>, <<>>)

\* One loop of _add_changelog_section over the types of a list.
RECURSIVE AddGroups(_, _, _, _)
AddGroups(self, lines, types, grouped_items) ==
    IF types = <<>>
    THEN Return(lines, <<>>)
    ELSE LET added == _add_work_items_for_type(self, lines, Head(types),
                                               grouped_items[Head(types)])
         IN  IF added.raised
             THEN added
             ELSE AddGroups(self, added.ret, Tail(types), grouped_items)

_add_changelog_section(self, lines, grouped_items) ==
    LET known == AddGroups(self, lines \o <<Heading(2, "Changelog"), BlankLine>>,
                           KnownTypes(grouped_items), grouped_items)
        sorted_types == SortedTypes(grouped_items)
    IN  IF known.raised
        THEN known
        ELSE IF sorted_types.raised
        THEN sorted_types
        ELSE AddGroups(self, known.ret, OtherTypes(sorted_types.ret), grouped_items)

BreakdownLines(types, grouped_items) ==
    [i \in 1..Len(types) |->
        [kind |-> "breakdown", emoji |-> _get_work_item_type_emoji(types[i]),
         type |-> types[i], count |-> Len(grouped_items[types[i]])]]

_add_breakdown_by_type(lines, grouped_items) ==
    LET sorted_types == SortedTypes(grouped_items)
    IN  IF sorted_types.raised
        THEN sorted_types
        ELSE Return(lines \o <<[kind |-> "breakdown title"], BlankLine>>
                        \o BreakdownLines(KnownTypes(grouped_items), grouped_items)
                        \o BreakdownLines(OtherTypes(sorted_types.ret), grouped_items)
                        \o <<BlankLine>>, <<>>)

\* max(prod_times): the greatest in the order of str.
MaxString(S) == CHOOSE x \in S : \A y \in S : ~StrLess(x, y)

Digits == {"0", "1", "2", "3", "4", "5", "6", "7", "8", "9"}

MonthNames ==
    (<<"0", "1">> :> "January") @@ (<<"0", "2">> :> "February")
        @@ (<<"0", "3">> :> "March") @@ (<<"0", "4">> :> "April")
        @@ (<<"0", "5">> :> "May") @@ (<<"0", "6">> :> "June")
        @@ (<<"0", "7">> :> "July") @@ (<<"0", "8">> :> "August")
        @@ (<<"0", "9">> :> "September") @@ (<<"1", "0">> :> "October")
        @@ (<<"1", "1">> :> "November") @@ (<<"1", "2">> :> "December")

\* datetime.fromisoformat(text).strftime('%B %d, %Y'): the date is read from
\* the first ten characters, YYYY-MM-DD; a text without them is a ValueError.
FormatIsoDate(text) ==
    IF /\ Len(text) >= 10
       /\ \A i \in {1, 2, 3, 4, 6, 7, 9, 10} : text[i] \in Digits
       /\ text[5] = "-" /\ text[8] = "-"
       /\ SubSeq(text, 6, 7) \in DOMAIN MonthNames
    THEN Return([month |-> MonthNames[SubSeq(text, 6, 7)],
                 day |-> SubSeq(text, 9, 10), year |-> SubSeq(text, 1, 4)], <<>>)
    ELSE Raise(Exc("ValueError"), <<>>)

\* The text "Unreleased", as a value that compares with a formatted date.
Unreleased == [text |-> "Unreleased"]

_extract_release_date(rels) ==
    LET prod_times == {rels[i].prod_deploy_time : i \in 1..Len(rels)}
        present == {Get(t) : t \in {o \in prod_times : Truthy(o)}}
    IN  IF rels = <<>> \/ present = {}
        THEN Return(Unreleased, <<>>)
        ELSE FormatIsoDate(MaxString(present))

\* A variant that sorts in ascending order.
_extract_iterations_ascending(items) ==
    LET iterations == {items[i].iteration_path : i \in 1..Len(items)} \ {NA}
    IN  IF items = <<>> \/ iterations = {}
        THEN <<NA>>
        ELSE SortedStrings(iterations)

\* ', '.join(...) is kept as the sequence of the strings it joins.
_extract_iterations(items) ==
    LET iterations == {items[i].iteration_path : i \in 1..Len(items)} \ {NA}
        ascending == SortedStrings(iterations)
    IN  IF items = <<>> \/ iterations = {}
        THEN <<NA>>
        ELSE [i \in 1..Len(ascending) |-> ascending[Len(ascending) + 1 - i]]

_add_summary_section(self, lines, items, rels, grouped_items) ==
    LET release_date == _extract_release_date(rels)
    IN  IF release_date.raised
        THEN release_date
        ELSE _add_breakdown_by_type(
                 lines \o <<Heading(2, "Summary"), BlankLine,
                            [kind |-> "release date", value |-> release_date.ret],
                            BlankLine,
                            [kind |-> "iteration", value |-> _extract_iterations(items)],
                            BlankLine,
                            [kind |-> "total work items", count |-> Len(items)],
                            [kind |-> "microservices released", count |-> Len(rels)],
                            BlankLine>>,
                 grouped_items)

_add_binaries_section(self, lines, rels) ==
    IF rels = <<>>
    THEN Return(lines, <<>>)
    ELSE LET sorted == StableSort(rels, {p \in Range(rels) \X Range(rels) :
                                  StrLess(p[1].microservice, p[2].microservice)})
         IN  Return(lines \o <<Heading(2, "Binaries"), BlankLine,
                               [kind |-> "table header"], [kind |-> "table rule"]>>
                        \o [i \in 1..Len(sorted) |->
                              [kind |-> "binary",
                               microservice |-> sorted[i].microservice,
                               pipeline_url |->
                                   [organization_url |-> self.organization_url,
                                    project |-> self.project, path |-> "_release",
                                    id |-> sorted[i].definition_id],
                               version |-> sorted[i].version,
                               release_url |->
                                   [organization_url |-> self.organization_url,
                                    project |-> self.project,
                                    path |-> "_releaseProgress",
                                    id |-> sorted[i].release_id]]]
                        \o <<BlankLine>>, <<>>)

\* The least i >= from at which pattern starts in s, 0 if there is none.
IndexOf(s, pattern, from) ==
    LET hits == {i \in from..(Len(s) - Len(pattern) + 1) :
                    SubSeq(s, i, i + Len(pattern) - 1) = pattern}
    IN  IF hits = {} THEN 0 ELSE CHOOSE i \in hits : \A j \in hits : i <= j

LiOpen == <<"<", "l", "i", ">">>
LiClose == <<"<", "/", "l", "i", ">">>

\* re.findall(r'<li>(.*?)</li>', s, re.DOTALL) from position from on
RECURSIVE FindListItems(_, _)
FindListItems(s, from) ==
    LET open == IndexOf(s, LiOpen, from)
        close == IF open = 0 THEN 0 ELSE IndexOf(s, LiClose, open + Len(LiOpen))
    IN  IF close = 0
        THEN <<>>
        ELSE <<SubSeq(s, open + Len(LiOpen), close - 1)>>
                 \o FindListItems(s, close + Len(LiClose))

\* re.sub(r'<[^>]+>', '', s)
RECURSIVE StripTags(_)
StripTags(s) ==
    IF s = <<>>
    THEN <<>>
    ELSE LET close == IndexOf(s, <<">">>, 2)
         IN  IF Head(s) = "<" /\ close >= 3
             THEN StripTags(SubSeq(s, close + 1, Len(s)))
             ELSE <<Head(s)>> \o StripTags(Tail(s))

\* A variant that keeps the markup of the list items.
_convert_notes_to_list_items_with_markup(notes) ==
    LET list_items == FindListItems(notes, 1)
        cleaned_items == [i \in 1..Len(list_items) |-> Strip(list_items[i])]
        cleaned_notes == Strip(StripTags(notes))
    IN  IF list_items # <<>>
        THEN SelectSeq(cleaned_items, LAMBDA cleaned : cleaned # <<>>)
        ELSE IF cleaned_notes # <<>> THEN <<cleaned_notes>> ELSE <<>>

_convert_notes_to_list_items(notes) ==
    LET list_items == FindListItems(notes, 1)
        cleaned_items == [i \in 1..Len(list_items) |-> Strip(StripTags(list_items[i]))]
        cleaned_notes == Strip(StripTags(notes))
    IN  IF list_items # <<>>
        THEN SelectSeq(cleaned_items, LAMBDA cleaned : cleaned # <<>>)
        ELSE IF cleaned_notes # <<>> THEN <<cleaned_notes>> ELSE <<>>

\* A variant that keeps the input order.
_filter_items_with_notes_input_order(items) ==
    Return(SelectSeq(items, LAMBDA item : Truthy(item.notes)), <<>>)

_filter_items_with_notes(items) ==
    SortedById(SelectSeq(items, LAMBDA item : Truthy(item.notes)))

_add_deployment_instruction_item(self, lines, item) ==
    LET note_items == _convert_notes_to_list_items(Get(item.notes))
    IN  lines \o <<[kind |-> "instruction", id |-> item.id,
                    url |-> _build_work_item_url(self, item.id)]>>
              \o [i \in 1..Len(note_items) |->
                    [kind |-> "instruction step", text |-> note_items[i]]]
              \o <<BlankLine>>

RECURSIVE AddInstructionItems(_, _, _)
AddInstructionItems(self, lines, items) ==
    IF items = <<>>
    THEN lines
    ELSE AddInstructionItems(self,
             _add_deployment_instruction_item(self, lines, Head(items)), Tail(items))

_add_deployment_instructions_section(self, lines, items) ==
    LET items_with_notes == _filter_items_with_notes(items)
    IN  IF items_with_notes.raised
        THEN items_with_notes
        ELSE IF items_with_notes.ret = <<>>
        THEN Return(lines, <<>>)
        ELSE Return(AddInstructionItems(self,
                        lines \o <<Heading(2, "Deployment Instructions"), BlankLine>>,
                        items_with_notes.ret), <<>>)

\* A variant that emits the block for an empty set too.
_add_contributors_section_always(lines, contribs) ==
    LET sorted == SortedStrings(contribs)
    IN  lines \o <<Heading(2, "Contributors"), BlankLine>>
              \o [i \in 1..Len(sorted) |-> [kind |-> "contributor", name |-> sorted[i]]]
              \o <<BlankLine>>

_add_contributors_section(lines, contribs) ==
    IF contribs = {}
    THEN lines
    ELSE LET sorted == SortedStrings(contribs)
         IN  lines \o <<Heading(2, "Contributors"), BlankLine>>
                   \o [i \in 1..Len(sorted) |-> [kind |-> "contributor", name |-> sorted[i]]]
                   \o <<BlankLine>>

\* A variant that calls the section methods in another order.
generate_binaries_last(self, release_number, items, rels, contribs) ==
    LET grouped_items == _group_work_items_by_type(items)
        title == <<[kind |-> "title", release |-> release_number], BlankLine>>
        summary == _add_summary_section(self, <<>>, items, rels, grouped_items)
        binaries == _add_binaries_section(self, <<>>, rels)
        changelog == _add_changelog_section(self, <<>>, grouped_items)
        instructions == _add_deployment_instructions_section(self, <<>>, items)
        contributors_section == _add_contributors_section(<<>>, contribs)
    IN  IF summary.raised
        THEN summary
        ELSE IF changelog.raised
        THEN changelog
        ELSE IF instructions.raised
        THEN instructions
        ELSE Return(title \o summary.ret \o changelog.ret \o instructions.ret
                          \o contributors_section \o binaries.ret, <<>>)

\* Every section method only appends to lines, so the document is the title
\* followed by what each of them appends, in the order of the calls; an
\* exception of one of them leaves generate at once.
generate(self, release_number, items, rels, contribs) ==
    LET grouped_items == _group_work_items_by_type(items)
        title == <<[kind |-> "title", release |-> release_number], BlankLine>>
        summary == _add_summary_section(self, <<>>, items, rels, grouped_items)
        binaries == _add_binaries_section(self, <<>>, rels)
        changelog == _add_changelog_section(self, <<>>, grouped_items)
        instructions == _add_deployment_instructions_section(self, <<>>, items)
        contributors_section == _add_contributors_section(<<>>, contribs)
    IN  IF summary.raised
        THEN summary
        ELSE IF changelog.raised
        THEN changelog
        ELSE IF instructions.raised
        THEN instructions
        ELSE Return(title \o summary.ret \o binaries.ret \o changelog.ret
                          \o instructions.ret \o contributors_section, <<>>)

----------------------------------------------------------------------------
(* src/config.py *)

\* A variant that does not call _validate_required_fields.
AzureDevOpsConfig_unvalidated(organization_url, project, pat, release_field, prod_env, notes_field) ==
    Return([organization_url |-> RStripChar(organization_url, "/"),
            project |-> project, pat |-> pat,
            release_field |-> release_field,
            production_environment |-> prod_env,
            notes_field |-> notes_field], <<>>)

\* The outcome of AzureDevOpsConfig(...): the object, or the ValueError of
\* _validate_required_fields.
AzureDevOpsConfig(organization_url, project, pat, release_field, prod_env, notes_field) ==
    LET self == [organization_url |-> RStripChar(organization_url, "/"),
                 project |-> project, pat |-> pat,
                 release_field |-> release_field,
                 production_environment |-> prod_env,
                 notes_field |-> notes_field]
    IN  IF self.organization_url = <<>> \/ self.project = <<>> \/ self.pat = <<>>
        THEN Raise(Exc("ValueError"), <<>>)
        ELSE Return(self, <<>>)

----------------------------------------------------------------------------
(* generate_release_notes.py: one run of main. *)

\* The command lines and environments of a run. An option that is not given
\* is None; the environment variable AZURE_DEVOPS_PAT is env_pat.
CommandLines ==
    [organization : {None, Some(<<>>), Some(<<"/">>), Some(<<"o">>), Some(<<"o", "/">>)},
     project : {None, Some(<<>>), Some(<<"p">>)},
     pat : {None, Some(<<>>), Some(<<"t">>)},
     env_pat : {None, Some(<<>>), Some(<<"e">>)},
     sort_by : {"id", "title"},
     output : {None, Some("notes.md")},
     release : {ReleaseLabel}]

\* parse_args: a required option that is missing ends the run in parser.error,
\* which exits with status 2; the other options get their defaults.
parse_args(cmd) ==
    IF IsNone(cmd.organization) \/ IsNone(cmd.project)
    THEN Raise(Exc("SystemExit"), <<>>)
    ELSE Return([release |-> cmd.release,
                 organization |-> Get(cmd.organization),
                 project |-> Get(cmd.project),
                 pat |-> cmd.pat,
                 release_field |-> "Custom.Release",
                 prod_env |-> "PROD",
                 notes_field |-> "System.Description",
                 output |-> cmd.output,
                 sort_by |-> cmd.sort_by], <<>>)

\* args.pat or os.environ.get('AZURE_DEVOPS_PAT'), refused when falsy
get_pat_token(ns, env_pat) ==
    LET pat == IF Truthy(ns.pat) THEN ns.pat ELSE env_pat
    IN  IF ~Truthy(pat)
        THEN Raise(Exc("ValueError"), <<>>)
        ELSE Return(Get(pat), <<>>)

\* The number of parameters MarkdownGenerator.__init__ takes after self.
GeneratorInitParams == 2

\* MarkdownGenerator(*arguments): a call with another number of arguments is a
\* TypeError.
NewMarkdownGenerator(arguments) ==
    IF Len(arguments) # GeneratorInitParams
    THEN Raise(Exc("TypeError"), <<>>)
    ELSE Return(MarkdownGenerator(arguments[1], arguments[2]), <<>>)

\* The responses of the remote service during a run.
MainItem(id) ==
    [id |-> id,
     fields |-> ("System.Id" :> id) @@ ("System.Title" :> TitleOf(id))
                    @@ ("System.WorkItemType" :> (IF id % 2 = 1 THEN Bug ELSE Task))
                    @@ ("System.State" :> "Done")
                    @@ ("System.Description" :> <<" ", "a">>)]

MainDetailResponses(ids) ==
    ErrorResponses \cup {OkResponse([i \in 1..Len(ids) |-> MainItem(ids[i])])}

MainClassicResponses ==
    {OkResponse(<<>>),
     OkResponse(<<[releaseDefinition |-> Some([name |-> Some(Svc(1)), id |-> Some("456")]),
                   name |-> Some("Release-1"), id |-> Some("789"),
                   environments |-> <<[name |-> "PROD",
                                       deploySteps |-> <<[lastModifiedOn |-> Some(November6)]>>]>>]>>),
     HttpErrorResponse(401, "Unauthorized", "denied"),
     MalformedResponse}

MainBuildsResponses ==
    {OkResponse(<<>>),
     OkResponse(<<[definition |-> Some([name |-> Some(Svc(2))]),
                   buildNumber |-> Some("20251106.1")]>>),
     UrlErrorResponse("timed out")}

MainHistoryResponses ==
    {UrlErrorResponse("timed out"), OkResponse(<<>>),
     OkResponse(<<Update(JsonRevisedBy(Some(Alice)))>>)}

MainQueryResponses == ErrorResponses \cup {OkResponse(ids) : ids \in IdSeqs}

\* A variant that never takes the early return.
NoWorkItems_never(ids) == FALSE

\* main, line 142: if not work_item_ids
NoWorkItems(ids) == ids = <<>>

\* A variant that fetches the contributors before the releases.
StepAfter_contributors_first(step) ==
    CASE step = "query_ids" -> "fetch_details"
      [] step = "fetch_details" -> "fetch_contributors"
      [] step = "fetch_contributors" -> "fetch_releases"
      [] step = "fetch_releases" -> "generate"

\* The order of the statements of main, lines 139-165.
StepAfter(step) ==
    CASE step = "query_ids" -> "fetch_details"
      [] step = "fetch_details" -> "fetch_releases"
      [] step = "fetch_releases" -> "fetch_contributors"
      [] step = "fetch_contributors" -> "generate"

\* The client main constructs from the configuration.
MainClient ==
    AzureDevOpsClient(Get(config).organization_url, Get(config).project, Get(config).pat, Get(config).release_field, Get(config).notes_field, Get(config).production_environment)

\* The run ends: by return (status 0), in an except clause of main (status 1),
\* or in the argument parser (status 2).
Exit(status, exc) ==
    /\ pc' = "done"
    /\ exit_status' = Some(status)
    /\ error' = exc

MainInit ==
    /\ pc = "parse_args"
    /\ argv \in CommandLines
    /\ args = None
    /\ config = None
    /\ exit_status = None
    /\ error = NoExc
    /\ steps = <<>>
    /\ requests = <<>>
    /\ responses = <<>>
    /\ work_item_ids = <<>>
    /\ work_items = <<>>
    /\ releases = <<>>
    /\ contributors = {}
    /\ markdown = None
    /\ output_file = None
    /\ ClientIdle
    /\ GenIdle

\* main, lines 39-116
ParseArgs ==
    /\ pc = "parse_args"
    /\ LET parsed == parse_args(argv)
       IN  IF parsed.raised
           THEN Exit(2, parsed.exc) /\ UNCHANGED args
           ELSE /\ args' = Some(parsed.ret)
                /\ pc' = "configure"
                /\ UNCHANGED <<exit_status, error>>
    /\ UNCHANGED <<argv, config, steps, requests, responses, work_item_ids, work_items,
                   releases, contributors, markdown, output_file>>
    /\ UNCHANGED <<clientVars, genVars>>

\* main, lines 118-137
Configure ==
    /\ pc = "configure"
    /\ LET a == Get(args)
           pat == get_pat_token(a, argv.env_pat)
           cfg == AzureDevOpsConfig(a.organization, a.project, pat.ret, a.release_field, a.prod_env, a.notes_field)
       IN  IF pat.raised
           THEN Exit(1, pat.exc) /\ UNCHANGED config
           ELSE IF cfg.raised
           THEN Exit(1, cfg.exc) /\ UNCHANGED config
           ELSE /\ config' = Some(cfg.ret)
                /\ pc' = "query_ids"
                /\ UNCHANGED <<exit_status, error>>
    /\ UNCHANGED <<argv, args, steps, requests, responses, work_item_ids, work_items,
                   releases, contributors, markdown, output_file>>
    /\ UNCHANGED <<clientVars, genVars>>

\* main, lines 139-146
QueryWorkItemIds ==
    /\ pc = "query_ids"
    /\ steps' = Append(steps, "query_ids")
    /\ \E resp \in MainQueryResponses :
        LET got == query_work_item_ids(MainClient, Get(args).release, resp)
        IN  /\ requests' = requests \o got.reqs
            /\ responses' = Append(responses, resp)
            /\ IF got.raised
               THEN Exit(1, got.exc) /\ UNCHANGED work_item_ids
               ELSE /\ work_item_ids' = got.ret
                    /\ IF NoWorkItems(got.ret)
                       THEN Exit(0, NoExc)
                       ELSE pc' = StepAfter("query_ids") /\ UNCHANGED <<exit_status, error>>
    /\ UNCHANGED <<argv, args, config, work_items, releases, contributors,
                   markdown, output_file>>
    /\ UNCHANGED <<clientVars, genVars>>

\* main, lines 148-149
GetWorkItemDetails ==
    /\ pc = "fetch_details"
    /\ steps' = Append(steps, "fetch_details")
    /\ \E resp \in MainDetailResponses(work_item_ids) :
        LET got == get_work_item_details(MainClient, work_item_ids, resp)
        IN  /\ requests' = requests \o got.reqs
            /\ responses' = responses \o (IF got.reqs = <<>> THEN <<>> ELSE <<resp>>)
            /\ IF got.raised
               THEN Exit(1, got.exc) /\ UNCHANGED work_items
               ELSE /\ work_items' = got.ret
                    /\ pc' = StepAfter("fetch_details")
                    /\ UNCHANGED <<exit_status, error>>
    /\ UNCHANGED <<argv, args, config, work_item_ids, releases, contributors,
                   markdown, output_file>>
    /\ UNCHANGED <<clientVars, genVars>>

\* main, lines 151-155
GetReleases ==
    /\ pc = "fetch_releases"
    /\ steps' = Append(steps, "fetch_releases")
    /\ \E classic_resp \in MainClassicResponses, builds_resp \in MainBuildsResponses :
        LET got == get_releases(MainClient, Get(args).release, classic_resp, builds_resp)
        IN  /\ requests' = requests \o got.reqs
            /\ responses' = responses \o SubSeq(<<classic_resp, builds_resp>>, 1, Len(got.reqs))
            /\ IF got.raised
               THEN Exit(1, got.exc) /\ UNCHANGED releases
               ELSE /\ releases' = got.ret
                    /\ pc' = StepAfter("fetch_releases")
                    /\ UNCHANGED <<exit_status, error>>
    /\ UNCHANGED <<argv, args, config, work_item_ids, work_items, contributors,
                   markdown, output_file>>
    /\ UNCHANGED <<clientVars, genVars>>

\* main, lines 157-161
GetWorkItemContributors ==
    /\ pc = "fetch_contributors"
    /\ steps' = Append(steps, "fetch_contributors")
    /\ \E history \in [Range(work_item_ids) -> MainHistoryResponses] :
        LET got == get_work_item_contributors(MainClient, work_item_ids, history)
        IN  /\ requests' = requests \o got.reqs
            /\ responses' = responses \o [i \in 1..Len(got.reqs) |-> history[work_item_ids[i]]]
            /\ IF got.raised
               THEN Exit(1, got.exc) /\ UNCHANGED contributors
               ELSE /\ contributors' = got.ret
                    /\ pc' = StepAfter("fetch_contributors")
                    /\ UNCHANGED <<exit_status, error>>
    /\ UNCHANGED <<argv, args, config, work_item_ids, work_items, releases,
                   markdown, output_file>>
    /\ UNCHANGED <<clientVars, genVars>>

\* main, lines 163-177: the generator is constructed, generate is called and
\* the document is written to the output file. The log of the type counts
\* that follows sorts the keys generate has sorted, so it raises nothing once
\* generate has returned.
GenerateAndWrite ==
    /\ pc = "generate"
    /\ LET generator == NewMarkdownGenerator(<<Get(config).organization_url,
                                               Get(config).project, Get(args).sort_by>>)
           document == generate(generator.ret, Get(args).release, work_items,
                                releases, contributors)
           path == IF ~IsNone(Get(args).output) /\ Get(Get(args).output) # ""
                   THEN <<Get(Get(args).output)>>
                   ELSE <<"Release-Notes-", Get(args).release, ".md">>
       IN  IF generator.raised
           THEN Exit(1, generator.exc) /\ UNCHANGED <<steps, markdown, output_file>>
           ELSE IF document.raised
           THEN /\ Exit(1, document.exc)
                /\ steps' = Append(steps, "generate")
                /\ UNCHANGED <<markdown, output_file>>
           ELSE /\ Exit(0, NoExc)
                /\ steps' = steps \o <<"generate", "file_write">>
                /\ markdown' = Some(document.ret)
                /\ output_file' = Some([path |-> path, content |-> document.ret])
    /\ UNCHANGED <<argv, args, config, requests, responses, work_item_ids, work_items,
                   releases, contributors>>
    /\ UNCHANGED <<clientVars, genVars>>

Next ==
    \/ ParseArgs
    \/ Configure
    \/ QueryWorkItemIds
    \/ GetWorkItemDetails
    \/ GetReleases
    \/ GetWorkItemContributors
    \/ GenerateAndWrite

Spec == MainInit /\ [][Next]_vars

\* The run under the scheduling of a process: a step that can be taken is taken.
FairSpec == Spec /\ WF_vars(Next)

----------------------------------------------------------------------------
(* The report generator called on its own with any work items, releases and *)
(* contributors.                                                             *)

\* Titles whose lexical order is the reverse of the order of the identifiers.
GenTitleOf(id) == <<"t">> \o [i \in 1..(MaxItems + 1 - id) |-> "x"]

GenItems ==
    {WorkItem(Some(id), Some(GenTitleOf(id)), Some(type), Some("Done"), NA, notes) :
        id \in 1..MaxItems, type \in {Bug, Task, Chore},
        notes \in {None, Some(<<"a">>)}}

\* The work item lists of a report: the identifiers are unique, in any order.
GenItemLists ==
    {items \in SeqsUpTo(GenItems, MaxItems) :
        \A i, j \in 1..Len(items) : items[i].id = items[j].id => i = j}

GenReleaseLists ==
    {<<>>, <<Release(Svc(1), "Release-1", Some(November6), "789", "456")>>}

GenContributorSets == {{}, {Bob, Alice}}

TestGenerator == MarkdownGenerator(<<"o">>, <<"p">>)

\* generate called for a run whose command line selected sort_by: the option
\* is recorded with the call, the method has no parameter to take it.
CallGenerate ==
    /\ g_op = "none"
    /\ \E items \in GenItemLists, rels \in GenReleaseLists,
          contribs \in GenContributorSets, sort_by \in {"id", "title"} :
        /\ g_op' = "generate"
        /\ g_in' = [release_number |-> ReleaseLabel, work_items |-> items,
                    releases |-> rels, contributors |-> contribs,
                    sort_by |-> sort_by]
        /\ g_out' = generate(TestGenerator, ReleaseLabel, items, rels, contribs)
    /\ UNCHANGED <<mainVars, clientVars>>

\* Production timestamps as ISO-8601 text, in UTC and with an offset.
November6Late == <<"2", "0", "2", "5", "-", "1", "1", "-", "0", "6", "T", "2", "3", ":", "0", "0", ":", "0", "0", "Z">>
November7Plus5 == <<"2", "0", "2", "5", "-", "1", "1", "-", "0", "7", "T", "0", "1", ":", "0", "0", ":", "0", "0", "+", "0", "5", ":", "0", "0">>

GenTimestamps ==
    {None, Some(November6), Some(December1), Some(November6Late), Some(November7Plus5)}

GenDatedReleaseLists ==
    SeqsUpTo({Release(Svc(1), "Release-1", t, "789", "456") : t \in GenTimestamps},
             MaxReleases)

CallExtractReleaseDate ==
    /\ g_op = "none"
    /\ \E rels \in GenDatedReleaseLists :
        /\ g_op' = "_extract_release_date"
        /\ g_in' = [releases |-> rels]
        /\ g_out' = _extract_release_date(rels)
    /\ UNCHANGED <<mainVars, clientVars>>

\* Work item lists over known types and other types, identifiers unique.
GenTypedItemLists ==
    {items \in SeqsUpTo({WorkItem(Some(id), Some(GenTitleOf(id)), Some(type), Some("Done"), NA, None) :
                            id \in 1..MaxItems, type \in {Bug, Task, Chore, Issue}},
                        MaxItems) :
        \A i, j \in 1..Len(items) : items[i].id = items[j].id => i = j}

CallAddBreakdownByType ==
    /\ g_op = "none"
    /\ \E items \in GenTypedItemLists :
        /\ g_op' = "_add_breakdown_by_type"
        /\ g_in' = [work_items |-> items]
        /\ g_out' = _add_breakdown_by_type(<<>>, _group_work_items_by_type(items))
    /\ UNCHANGED <<mainVars, clientVars>>

CallAddChangelogSection ==
    /\ g_op = "none"
    /\ \E items \in GenTypedItemLists :
        /\ g_op' = "_add_changelog_section"
        /\ g_in' = [work_items |-> items]
        /\ g_out' = _add_changelog_section(TestGenerator, <<>>,
                                           _group_work_items_by_type(items))
    /\ UNCHANGED <<mainVars, clientVars>>

\* Notes as the gateway leaves them: absent, or text without surrounding
\* whitespace that may be plain, markup only, or an empty list item.
MarkupOnly == <<"<", "b", ">">>
MarkupAndSpace == <<"<", "b", ">", " ", "<", "b", ">">>
EmptyListItem == LiOpen \o LiClose

GenNotes == {None, Some(<<"a">>), Some(MarkupOnly), Some(MarkupAndSpace), Some(EmptyListItem)}

GenNotedItemLists ==
    {items \in SeqsUpTo({WorkItem(Some(id), Some(GenTitleOf(id)), Some(Bug), Some("Done"), NA, notes) :
                            id \in 1..MaxItems, notes \in GenNotes},
                        MaxItems) :
        \A i, j \in 1..Len(items) : items[i].id = items[j].id => i = j}

CallAddDeploymentInstructionsSection ==
    /\ g_op = "none"
    /\ \E items \in GenNotedItemLists :
        /\ g_op' = "_add_deployment_instructions_section"
        /\ g_in' = [work_items |-> items]
        /\ g_out' = _add_deployment_instructions_section(TestGenerator, <<>>, items)
    /\ UNCHANGED <<mainVars, clientVars>>

\* Notes are built from pieces: plain text, whitespace, an inline tag, a
\* closing bracket that closes nothing, and whole list items. Each piece
\* has its raw characters, whether it is a list item, and the text it holds.
Piece(raw, marker, text) == [raw |-> raw, marker |-> marker, text |-> text]

NotesPieces ==
    {Piece(<<"a">>, FALSE, <<"a">>),
     Piece(<<"b">>, FALSE, <<"b">>),
     Piece(<<" ">>, FALSE, <<" ">>),
     Piece(<<"<", "i", ">">>, FALSE, <<>>),
     Piece(<<">">>, FALSE, <<">">>),
     Piece(LiOpen \o <<"a">> \o LiClose, TRUE, <<"a">>),
     Piece(LiOpen \o <<" ", "<", "i", ">", "b", "<", "/", "i", ">">> \o LiClose, TRUE, <<" ", "b">>),
     Piece(LiOpen \o <<"a", "<", "i", ">", "b">> \o LiClose, TRUE, <<"a", "b">>),
     Piece(LiOpen \o LiClose, TRUE, <<>>)}

RECURSIVE RawOf(_)
RawOf(pieces) ==
    IF pieces = <<>> THEN <<>> ELSE Head(pieces).raw \o RawOf(Tail(pieces))

CallConvertNotesToListItems ==
    /\ g_op = "none"
    /\ \E pieces \in SeqsUpTo(NotesPieces, MaxNotesLen) :
        /\ g_op' = "_convert_notes_to_list_items"
        /\ g_in' = [pieces |-> pieces, notes |-> RawOf(pieces)]
        /\ g_out' = Return(_convert_notes_to_list_items(RawOf(pieces)), <<>>)
    /\ UNCHANGED <<mainVars, clientVars>>

\* Work item lists whose iteration paths are N/A or the name of a sprint.
Sprint1 == <<"S", "p", "r", "i", "n", "t", " ", "1">>
Sprint2 == <<"S", "p", "r", "i", "n", "t", " ", "2">>
Sprint10 == <<"S", "p", "r", "i", "n", "t", " ", "1", "0">>

GenIterationItemLists ==
    UNION {{[i \in 1..n |-> WorkItem(Some(i), Some(GenTitleOf(1)), Some(Bug), Some("Done"),
                                     paths[i], None)] :
               paths \in [1..n -> {NA, Sprint1, Sprint2, Sprint10}]} : n \in 0..MaxItems}

CallExtractIterations ==
    /\ g_op = "none"
    /\ \E items \in GenIterationItemLists :
        /\ g_op' = "_extract_iterations"
        /\ g_in' = [work_items |-> items]
        /\ g_out' = Return(_extract_iterations(items), <<>>)
    /\ UNCHANGED <<mainVars, clientVars>>

\* Release lists of several microservices, a microservice released once or
\* more than once.
GenServiceReleaseLists ==
    SeqsUpTo({Release(Svc(n), version, None, "789", "456") :
                 n \in 1..2, version \in {"Release-1", "Release-2"}},
             MaxReleases)

CallGenerateReleases ==
    /\ g_op = "none"
    /\ \E rels \in GenServiceReleaseLists :
        /\ g_op' = "generate"
        /\ g_in' = [release_number |-> ReleaseLabel, work_items |-> <<>>,
                    releases |-> rels, contributors |-> {}, sort_by |-> "id"]
        /\ g_out' = generate(TestGenerator, ReleaseLabel, <<>>, rels, {})
    /\ UNCHANGED <<mainVars, clientVars>>

\* The types of the icon table and one type outside it.
GenTypes ==
    {Bug, Epic, Feature, UserStory, Task, Issue, ProductBacklogItem, Impediment, Chore}

CallGetWorkItemTypeEmoji ==
    /\ g_op = "none"
    /\ \E work_type \in GenTypes :
        /\ g_op' = "_get_work_item_type_emoji"
        /\ g_in' = [work_type |-> work_type]
        /\ g_out' = Return(_get_work_item_type_emoji(Some(work_type)), <<>>)
    /\ UNCHANGED <<mainVars, clientVars>>

\* generate called with the releases that get_releases returns when the
\* classic tier fails and the build tier answers.
CallGenerateFromBuildTier ==
    /\ g_op = "none"
    /\ \E classic_resp \in ErrorResponses, builds_resp \in BuildsResponses :
        LET rels == get_releases(TestClient, ReleaseLabel, classic_resp, builds_resp).ret
        IN  /\ g_op' = "generate"
            /\ g_in' = [release_number |-> ReleaseLabel, work_items |-> <<>>,
                        releases |-> rels, contributors |-> {}, sort_by |-> "id",
                        classic_resp |-> classic_resp, builds_resp |-> builds_resp]
            /\ g_out' = generate(TestGenerator, ReleaseLabel, <<>>, rels, {})
    /\ UNCHANGED <<mainVars, clientVars>>

\* generate called with the work items that get_work_item_details returns for
\* a detail response whose items have or lack an identifier field, a type
\* and notes.
GenDetailResponses ==
    UNION {{OkResponse(items) :
               items \in {s \in ItemSeqs([i \in 1..n |-> i]) :
                            \A k \in 1..n :
                                "Custom.Notes" \in DOMAIN s[k].fields =>
                                    s[k].fields["Custom.Notes"] = <<" ", "a", "\n">>}} :
           n \in 0..MaxIds}

CallGenerateFromDetails ==
    /\ g_op = "none"
    /\ \E resp \in GenDetailResponses :
        LET ids == [i \in 1..Len(resp.value) |-> i]
            items == get_work_item_details(TestClient, ids, resp).ret
        IN  /\ g_op' = "generate after get_work_item_details"
            /\ g_in' = [release_number |-> ReleaseLabel, work_items |-> items,
                        releases |-> <<>>, contributors |-> {}, detail_resp |-> resp]
            /\ g_out' = generate(TestGenerator, ReleaseLabel, items, <<>>, {})
    /\ UNCHANGED <<mainVars, clientVars>>

\* generate called twice, on a work item list and a release list and on a
\* permutation of each. The identifiers and the microservice names are
\* pairwise distinct. The arguments are recorded again after the calls:
\* generate builds new lists with sorted() and assigns to none of them.
Reorderings(seq) ==
    {[i \in 1..Len(seq) |-> seq[p[i]]] :
        p \in {q \in [1..Len(seq) -> 1..Len(seq)] :
                 \A i, j \in 1..Len(seq) : q[i] = q[j] => i = j}}

GenOrderedItemLists ==
    UNION {{[i \in 1..n |-> WorkItem(Some(i), Some(GenTitleOf(i)), Some(types[i]),
                                     Some("Done"), NA, Some(<<"a">>))] :
               types \in [1..n -> {Bug, Chore}]} : n \in 0..MaxItems}

GenOrderedReleaseLists ==
    {<<>>,
     <<Release(Svc(1), "Release-1", Some(November6), "789", "456"),
       Release(Svc(2), "Release-2", Some(December1), "790", "457")>>,
     <<Release(Svc(1), "Release-1", None, "789", "456"),
       Release(Svc(2), "Release-2", Some(December1), "790", "457")>>}

CallGeneratePermuted ==
    /\ g_op = "none"
    /\ \E items \in GenOrderedItemLists, rels \in GenOrderedReleaseLists :
        \E permuted_items \in Reorderings(items), permuted_rels \in Reorderings(rels) :
            LET first == generate(TestGenerator, ReleaseLabel, items, rels, {Bob, Alice})
                second == generate(TestGenerator, ReleaseLabel, permuted_items,
                                   permuted_rels, {Bob, Alice})
            IN  /\ g_op' = "generate twice"
                /\ g_in' = [work_items |-> items, releases |-> rels,
                            permuted_work_items |-> permuted_items,
                            permuted_releases |-> permuted_rels,
                            work_items_after |-> items, releases_after |-> rels,
                            permuted_work_items_after |-> permuted_items,
                            permuted_releases_after |-> permuted_rels]
                /\ g_out' = [raised |-> first.raised \/ second.raised,
                             exc |-> IF first.raised THEN first.exc ELSE second.exc,
                             ret |-> <<first.ret, second.ret>>,
                             reqs |-> <<>>]
    /\ UNCHANGED <<mainVars, clientVars>>

GenInit == MainIdle /\ ClientIdle /\ GenIdle

GenNext ==
    \/ CallGenerate
    \/ CallExtractReleaseDate
    \/ CallAddBreakdownByType
    \/ CallAddChangelogSection
    \/ CallAddDeploymentInstructionsSection
    \/ CallConvertNotesToListItems
    \/ CallExtractIterations
    \/ CallGenerateReleases
    \/ CallGetWorkItemTypeEmoji
    \/ CallGenerateFromBuildTier
    \/ CallGenerateFromDetails
    \/ CallGeneratePermuted

SpecGen == GenInit /\ [][GenNext]_vars

----------------------------------------------------------------------------
(* Properties of one run of main (Spec). *)

PipelineSteps ==
    <<"query_ids", "fetch_details", "fetch_releases", "fetch_contributors",
      "generate", "file_write">>

\* The path main writes to for the command line of the run.
ExpectedPath ==
    IF IsNone(argv.output)
    THEN <<"Release-Notes-", argv.release, ".md">>
    ELSE <<Get(argv.output)>>

\* The run got past the detail fetch: the configuration was accepted, the id
\* query returned at least one id and the detail fetch returned work items.
DetailsFetched ==
    /\ Len(responses) >= 2
    /\ responses[1].kind = "ok" /\ responses[1].value # <<>>
    /\ responses[2].kind = "ok"

\* C1: a run with a valid configuration, at least one id and a successful
\* detail fetch ends with the markdown file written, to the default path
\* unless overridden, and with exit status 0, whatever the release fetch and
\* the contributor fetch do and for either sort-by value.
C1_RunWritesFileAndExitsZero ==
    (pc = "done" /\ DetailsFetched) =>
        /\ exit_status = Some(0)
        /\ ~IsNone(output_file)
        /\ Get(output_file).path = ExpectedPath

\* C5 as stated: a non-2xx response or a transport failure on the id query or
\* on the detail fetch ends the run with exit status 1 after that step, and
\* the error carries the upstream status and body.
C5_FatalErrorCarriesStatusAndBody ==
    \A k \in {1, 2} :
        (k <= Len(responses) /\ responses[k].kind \in {"http_error", "url_error"}) =>
            /\ pc = "done" /\ exit_status = Some(1)
            /\ steps = SubSeq(PipelineSteps, 1, k) /\ Len(responses) = k
            /\ IsNone(markdown) /\ IsNone(output_file)
            /\ ~IsNone(error.status) /\ ~IsNone(error.body)

\* C5: a non-2xx response or a transport failure on the id query or on the
\* detail fetch ends the run with exit status 1 and no later step; the error
\* carries the status and the body of a non-2xx response, and the reason
\* alone of a transport failure.
C5_FatalErrorEndsRun ==
    \A k \in {1, 2} :
        (k <= Len(responses) /\ responses[k].kind \in {"http_error", "url_error"}) =>
            /\ pc = "done" /\ exit_status = Some(1)
            /\ steps = SubSeq(PipelineSteps, 1, k) /\ Len(responses) = k
            /\ IsNone(markdown) /\ IsNone(output_file)
            /\ error.type = "RuntimeError"
            /\ IF responses[k].kind = "http_error"
               THEN /\ error.status = Some(responses[k].code)
                    /\ error.body = Some(responses[k].body)
               ELSE /\ error.reason = Some(responses[k].reason)
                    /\ IsNone(error.status) /\ IsNone(error.body)

C5_Witness ==
    /\ pc = "done" /\ exit_status = Some(1)
    /\ Len(responses) = 2 /\ responses[2].kind = "http_error"
    /\ error.status = Some(responses[2].code)

\* A required option that the command line does not give.
OptionMissing == IsNone(argv.organization) \/ IsNone(argv.project)

\* The token main would use: --pat, else the environment.
EffectiveToken == IF Truthy(argv.pat) THEN argv.pat ELSE argv.env_pat

\* An organization or project given empty, or no token, or an empty one.
ValueEmpty ==
    \/ argv.organization = Some(<<>>)
    \/ argv.project = Some(<<>>)
    \/ ~Truthy(EffectiveToken)

C7_NoWorkItemsEndsRun ==
    (Len(responses) >= 1 /\ responses[1] = OkResponse(<<>>)) =>
        /\ pc = "done" /\ exit_status = Some(0) /\ error = NoExc
        /\ steps = <<"query_ids">>
        /\ Len(requests) = 1 /\ Len(responses) = 1
        /\ work_items = <<>> /\ releases = <<>> /\ contributors = {}
        /\ IsNone(markdown) /\ IsNone(output_file)

C7_Witness ==
    /\ pc = "done" /\ exit_status = Some(0)
    /\ responses = <<OkResponse(<<>>)>>

\* C8: the pipeline steps occur at most once each and only in the order query
\* ids, fetch details, fetch releases, fetch contributors, generate, file
\* write, none before all the earlier ones; the file holds the document that
\* generate returned.
C8_StepsInPipelineOrder ==
    /\ IsPrefix(steps, PipelineSteps)
    /\ ~IsNone(output_file) =>
          /\ ~IsNone(markdown)
          /\ Get(output_file).content = Get(markdown)
          /\ steps = PipelineSteps

C8_Witness ==
    /\ pc = "done"
    /\ steps = SubSeq(PipelineSteps, 1, 4)
    /\ Len(requests) >= 4

----------------------------------------------------------------------------
(* Properties of the report generator (SpecGen). *)

\* The item lines of a document that directly follow another item line: both
\* belong to one changelog group.
AdjacentItems(doc) ==
    {i \in 1..(Len(doc) - 1) : doc[i].kind = "item" /\ doc[i + 1].kind = "item"}

\* C2: the sort-by selector controls the order of the items of every changelog
\* group: ascending identifier with sort-by id, ascending lexical title with
\* sort-by title.
C2_SortByControlsOrder ==
    (g_op = "generate" /\ ~g_out.raised) =>
        \A i \in AdjacentItems(g_out.ret) :
            IF g_in.sort_by = "id"
            THEN Get(g_out.ret[i].id) < Get(g_out.ret[i + 1].id)
            ELSE ~StrLess(Get(g_out.ret[i + 1].title), Get(g_out.ret[i].title))

----------------------------------------------------------------------------
(* Properties of the gateway operations (SpecClient). *)

\* C3: get_releases never raises; when the classic tier fails it returns what
\* the build tier returns, which is the empty sequence when that fails too.
C3_GetReleasesNeverRaises ==
    c_op = "get_releases" =>
        /\ ~c_out.raised
        /\ c_in.classic_resp.kind # "ok" =>
              c_out.ret =
                  IF c_in.builds_resp.kind = "ok"
                  THEN _get_releases_from_builds(TestClient, c_in.release_tag,
                                                 c_in.builds_resp).ret
                  ELSE <<>>

C3_Witness ==
    /\ c_op = "get_releases"
    /\ c_in.classic_resp.kind = "http_error"
    /\ c_in.builds_resp.kind = "url_error"
    /\ ~c_out.raised /\ c_out.ret = <<>>
    /\ Len(c_out.reqs) = 2

\* The processing of the history of an id fails: the request fails, or an
\* update has a null revisedBy.
HistoryFails(resp) ==
    \/ resp.kind # "ok"
    \/ \E i \in 1..Len(resp.value) : resp.value[i].revisedBy.tag = "null"

\* The display names of the revisions of a history that are no system account.
HumanNames(resp) ==
    {Get(resp.value[i].revisedBy.displayName) :
        i \in {j \in 1..Len(resp.value) :
                 /\ resp.value[j].revisedBy.tag = "object"
                 /\ Truthy(resp.value[j].revisedBy.displayName)
                 /\ ~_is_system_account(Get(resp.value[j].revisedBy.displayName))}}

\* C4: get_work_item_contributors never raises and returns exactly the union
\* of the non-system revised-by display names of the ids whose history
\* processing did not fail; a failing id contributes no name.
C4_UnionOfNonFailingIds ==
    c_op = "get_work_item_contributors" =>
        /\ ~c_out.raised
        /\ c_out.ret = UNION {HumanNames(c_in.history[id]) :
                                id \in {i \in Range(c_in.ids) :
                                           ~HistoryFails(c_in.history[i])}}

\* C9: with an empty id sequence get_work_item_details returns an empty
\* sequence and get_work_item_contributors an empty set, and neither issues a
\* network request.
C9_EmptyIdsNoRequest ==
    /\ (c_op = "get_work_item_details" /\ c_in.ids = <<>>) =>
          ~c_out.raised /\ c_out.ret = <<>> /\ c_out.reqs = <<>>
    /\ (c_op = "get_work_item_contributors" /\ c_in.ids = <<>>) =>
          ~c_out.raised /\ c_out.ret = {} /\ c_out.reqs = <<>>

C9_Witness ==
    /\ c_op = "get_work_item_details"
    /\ c_in.ids = <<>> /\ c_in.resp.kind = "http_error"
    /\ c_out.ret = <<>> /\ c_out.reqs = <<>>

AllWhitespace(s) == \A i \in 1..Len(s) : s[i] \in WhitespaceChars

\* out is raw without its leading and trailing whitespace, nothing else changed.
IsTrimOf(out, raw) ==
    \E i, j \in 1..Len(raw) :
        /\ out = SubSeq(raw, i, j)
        /\ raw[i] \notin WhitespaceChars /\ raw[j] \notin WhitespaceChars
        /\ AllWhitespace(SubSeq(raw, 1, i - 1))
        /\ AllWhitespace(SubSeq(raw, j + 1, Len(raw)))

\* C10: notes normalization maps a missing, empty or all-whitespace raw value
\* to absent and any other to the raw value without its leading and trailing
\* whitespace, markup unchanged; normalizing its result again changes
\* nothing; no WorkItem of get_work_item_details carries notes that are empty
\* after trimming.
C10_NotesNormalization ==
    /\ c_op = "_parse_notes_field" =>
          IF IsNone(c_in.raw_notes) \/ AllWhitespace(Get(c_in.raw_notes))
          THEN IsNone(c_out.ret)
          ELSE ~IsNone(c_out.ret) /\ IsTrimOf(Get(c_out.ret), Get(c_in.raw_notes))
    /\ c_op = "_parse_notes_field again" => c_out.ret = c_in.raw_notes
    /\ (c_op = "get_work_item_details" /\ ~c_out.raised) =>
          \A i \in 1..Len(c_out.ret) :
              \/ IsNone(c_out.ret[i].notes)
              \/ ~AllWhitespace(Get(c_out.ret[i].notes))

C10_Witness ==
    /\ c_op = "_parse_notes_field again"
    /\ c_in.raw_notes = Some(<<"<", "a">>)
    /\ c_out.ret = Some(<<"<", "a">>)

\* C11: get_work_item_details maps every item of the detail response to one
\* WorkItem, in response order, whose id is the identifier of that item, also
\* when the item carries it at its top level and not among its fields, and
\* whose title and type are the fields of that item.
C11_DetailsMapEveryItem ==
    (c_op = "get_work_item_details" /\ c_in.ids # <<>> /\ c_in.resp.kind = "ok") =>
        /\ ~c_out.raised
        /\ Len(c_out.ret) = Len(c_in.resp.value)
        /\ \A i \in 1..Len(c_in.resp.value) :
              /\ c_out.ret[i].id = Some(c_in.resp.value[i].id)
              /\ c_out.ret[i].title = DictGet(c_in.resp.value[i].fields, "System.Title")
              /\ c_out.ret[i].type = DictGet(c_in.resp.value[i].fields, "System.WorkItemType")

----------------------------------------------------------------------------
(* Properties of the report generator, continued (SpecGen). *)

\* The number that two decimal digits of text at i write.
TwoDigits(text, i) == 10 * (Ord(text[i]) - Ord("0")) + (Ord(text[i + 1]) - Ord("0"))

\* The days of a common year before the first of each month.
DaysBeforeMonth == <<0, 31, 59, 90, 120, 151, 181, 212, 243, 273, 304, 334>>

\* The minutes that the UTC offset at the end of an ISO-8601 text adds to UTC.
OffsetMinutes(text) ==
    IF text[Len(text)] = "Z"
    THEN 0
    ELSE (IF text[Len(text) - 5] = "-" THEN -1 ELSE 1)
             * (60 * TwoDigits(text, Len(text) - 4) + TwoDigits(text, Len(text) - 1))

\* The instant an ISO-8601 text YYYY-MM-DDTHH:MM... of a common year names,
\* in minutes of UTC since the start of year 0 counted in common years.
UtcMinutes(text) ==
    ((((100 * TwoDigits(text, 1) + TwoDigits(text, 3)) * 365
          + DaysBeforeMonth[TwoDigits(text, 6)] + TwoDigits(text, 9)) * 24
        + TwoDigits(text, 12)) * 60 + TwoDigits(text, 15)) - OffsetMinutes(text)

\* The production timestamps of a release list that are not absent.
PresentTimes(rels) ==
    {Get(rels[i].prod_deploy_time) :
        i \in {j \in 1..Len(rels) : ~IsNone(rels[j].prod_deploy_time)}}

\* C12: the release date is "Unreleased" exactly when the release list is
\* empty or every release has an absent production timestamp; otherwise it
\* is the formatted chronologically latest of the production timestamps.
C12_ReleaseDateIsLatest ==
    g_op = "_extract_release_date" =>
        LET present == PresentTimes(g_in.releases)
        IN  /\ ~g_out.raised
            /\ g_out.ret = Unreleased <=> present = {}
            /\ present # {} =>
                  \E latest \in present :
                      /\ \A t \in present : UtcMinutes(t) <= UtcMinutes(latest)
                      /\ g_out.ret = FormatIsoDate(latest).ret

\* The types a document shows, in order: one per changelog group header or
\* per line of the breakdown.
ShownTypes(doc) ==
    LET shown == SelectSeq(doc, LAMBDA line : line.kind \in {"group", "breakdown"})
    IN  [i \in 1..Len(shown) |-> Get(shown[i].type)]

KnownTypeOrder == <<Bug, Epic, Feature, UserStory, Task>>

PositionIn(seq, x) == CHOOSE i \in 1..Len(seq) : seq[i] = x

\* Type a is shown before type b: both known and a first in the fixed order,
\* or a known and b not, or neither known and a lexically less than b.
TypeBefore(a, b) ==
    IF a \in Range(KnownTypeOrder)
    THEN b \in Range(KnownTypeOrder) => PositionIn(KnownTypeOrder, a) < PositionIn(KnownTypeOrder, b)
    ELSE b \notin Range(KnownTypeOrder) /\ StrLess(a, b)

\* C13: the Summary breakdown and the Changelog each show every present type
\* exactly once, the known types in the order Bug, Epic, Feature, User
\* Story, Task before every other type, the other types in ascending
\* lexical order.
C13_TypeOrder ==
    g_op \in {"_add_breakdown_by_type", "_add_changelog_section"} =>
        /\ ~g_out.raised
        /\ LET shown == ShownTypes(g_out.ret)
               present == {Get(g_in.work_items[i].type) : i \in 1..Len(g_in.work_items)}
           IN  /\ Range(shown) = present
               /\ Len(shown) = Cardinality(present)
               /\ \A i, j \in 1..Len(shown) : i < j => TypeBefore(shown[i], shown[j])

C13_Witness ==
    /\ g_op = "_add_changelog_section"
    /\ Len(g_in.work_items) = 2
    /\ g_in.work_items[1].type = Some(Issue)
    /\ g_in.work_items[2].type = Some(Chore)
    /\ ShownTypes(g_out.ret) = <<Chore, Issue>>

\* The identifiers of the lines of one kind of a document, in order.
IdsOfKind(doc, kind) ==
    LET chosen == SelectSeq(doc, LAMBDA line : line.kind = kind)
    IN  [i \in 1..Len(chosen) |-> Get(chosen[i].id)]

Ascending(ids) == \A i, j \in 1..Len(ids) : i < j => ids[i] < ids[j]

\* C14: whatever the input order of the work items, generate renders the
\* items of each changelog group in ascending identifier order and the
\* entries of the Deployment Instructions section in ascending identifier
\* order.
C14_AscendingIdentifiers ==
    g_op = "generate" =>
        /\ ~g_out.raised
        /\ \A i \in AdjacentItems(g_out.ret) :
              Get(g_out.ret[i].id) < Get(g_out.ret[i + 1].id)
        /\ Range(IdsOfKind(g_out.ret, "item")) =
              {Get(g_in.work_items[i].id) : i \in 1..Len(g_in.work_items)}
        /\ Ascending(IdsOfKind(g_out.ret, "instruction"))
        /\ Range(IdsOfKind(g_out.ret, "instruction")) =
              {Get(g_in.work_items[i].id) :
                  i \in {j \in 1..Len(g_in.work_items) : Truthy(g_in.work_items[j].notes)}}

C14_Witness ==
    /\ g_op = "generate"
    /\ Len(g_in.work_items) = 2
    /\ Get(g_in.work_items[1].id) > Get(g_in.work_items[2].id)
    /\ g_in.work_items[1].type = g_in.work_items[2].type
    /\ IdsOfKind(g_out.ret, "item") = <<1, 2>>
    /\ IdsOfKind(g_out.ret, "instruction") = <<1, 2>>

\* How many times a document has the level-2 heading of a section.
HeadingCount(doc, text) ==
    Cardinality({i \in 1..Len(doc) : doc[i] = Heading(2, text)})

\* C15: in the document of generate the Binaries heading is present exactly
\* when the release list is non-empty, the Contributors heading exactly when
\* the contributor set is non-empty, the Deployment Instructions heading
\* exactly when some work item has notes; each heading occurs at most once.
C15_OptionalSectionsIffInput ==
    g_op = "generate" =>
        /\ ~g_out.raised
        /\ HeadingCount(g_out.ret, "Binaries") = (IF g_in.releases # <<>> THEN 1 ELSE 0)
        /\ HeadingCount(g_out.ret, "Contributors") = (IF g_in.contributors # {} THEN 1 ELSE 0)
        /\ HeadingCount(g_out.ret, "Deployment Instructions") =
              (IF \E i \in 1..Len(g_in.work_items) : ~IsNone(g_in.work_items[i].notes)
               THEN 1 ELSE 0)

C15_Witness ==
    /\ g_op = "generate"
    /\ g_in.releases = <<>>
    /\ g_in.contributors # {}
    /\ Len(g_in.work_items) = 2
    /\ IsNone(g_in.work_items[1].notes)
    /\ ~IsNone(g_in.work_items[2].notes)
    /\ HeadingCount(g_out.ret, "Binaries") = 0
    /\ HeadingCount(g_out.ret, "Contributors") = 1
    /\ HeadingCount(g_out.ret, "Deployment Instructions") = 1

\* Notes that have no text: nothing but whitespace is left of them once the
\* markup is taken out.
NoText(notes) == Strip(StripTags(notes)) = <<>>

\* C16: a work item whose notes are only markup and whitespace yields no
\* sub-entry and is left out of the Deployment Instructions section: it has
\* no top-level entry, and the heading is not emitted when no other item has
\* notes.
C16_MarkupOnlyNotesExcluded ==
    g_op = "_add_deployment_instructions_section" =>
        LET items == g_in.work_items
            noted == {i \in 1..Len(items) : ~IsNone(items[i].notes)}
            textless == {i \in noted : NoText(Get(items[i].notes))}
        IN  /\ ~g_out.raised
            /\ \A i \in textless :
                  /\ _convert_notes_to_list_items(Get(items[i].notes)) = <<>>
                  /\ Get(items[i].id) \notin Range(IdsOfKind(g_out.ret, "instruction"))
            /\ noted = textless => HeadingCount(g_out.ret, "Deployment Instructions") = 0

\* The text of the list items of notes, one per item, in order, and the text
\* of the whole notes, both read off the pieces and without surrounding
\* whitespace.
RECURSIVE MarkerTexts(_)
MarkerTexts(pieces) ==
    IF pieces = <<>>
    THEN <<>>
    ELSE (IF Head(pieces).marker THEN <<Strip(Head(pieces).text)>> ELSE <<>>)
             \o MarkerTexts(Tail(pieces))

RECURSIVE TextOf(_)
TextOf(pieces) ==
    IF pieces = <<>> THEN <<>> ELSE Head(pieces).text \o TextOf(Tail(pieces))

\* The sub-entries of notes without any list item.
WholeNotesEntry(pieces) ==
    IF Strip(TextOf(pieces)) # <<>> THEN <<Strip(TextOf(pieces))>> ELSE <<>>

\* C17 as stated: extraction is total; notes with list items give exactly one
\* sub-entry per list item, in order, holding its text without the nested
\* markup; notes without a list item give their whole text without markup as
\* the single sub-entry when it is non-empty, and no sub-entry otherwise.
C17_OneSubEntryPerMarker ==
    g_op = "_convert_notes_to_list_items" =>
        /\ ~g_out.raised
        /\ g_out.ret = (IF MarkerTexts(g_in.pieces) # <<>>
                        THEN MarkerTexts(g_in.pieces)
                        ELSE WholeNotesEntry(g_in.pieces))

\* C17 as the code has it: a list item whose text is empty gives no
\* sub-entry; the other list items give one sub-entry each, in order.
C17_OneSubEntryPerNonEmptyMarker ==
    g_op = "_convert_notes_to_list_items" =>
        /\ ~g_out.raised
        /\ g_out.ret = (IF MarkerTexts(g_in.pieces) # <<>>
                        THEN SelectSeq(MarkerTexts(g_in.pieces), LAMBDA text : text # <<>>)
                        ELSE WholeNotesEntry(g_in.pieces))

C17_Witness ==
    /\ g_op = "_convert_notes_to_list_items"
    /\ MarkerTexts(g_in.pieces) = <<<<"a", "b">>, <<>>, <<"b">>>>
    /\ g_out.ret = <<<<"a", "b">>, <<"b">>>>

SectionOrder ==
    <<"Title", "Summary", "Binaries", "Changelog", "Deployment Instructions", "Contributors">>

\* The sections of a document, in order: the title line and the level-2
\* headings.
SectionsOf(doc) ==
    LET starts == SelectSeq(doc, LAMBDA line :
                      \/ line.kind = "title"
                      \/ line.kind = "heading" /\ line.level = 2)
    IN  [i \in 1..Len(starts) |->
            IF starts[i].kind = "title" THEN "Title" ELSE starts[i].text]

\* C18: in every document of generate the sections that are present are in
\* the order Title, Summary, Binaries, Changelog, Deployment Instructions,
\* Contributors; Title, Summary and Changelog are present for every input,
\* an empty work item list included.
C18_SectionOrder ==
    g_op = "generate" =>
        /\ ~g_out.raised
        /\ LET sections == SectionsOf(g_out.ret)
           IN  /\ Range(sections) \subseteq Range(SectionOrder)
               /\ \A i, j \in 1..Len(sections) :
                     i < j => PositionIn(SectionOrder, sections[i]) <
                                 PositionIn(SectionOrder, sections[j])
               /\ {"Title", "Summary", "Changelog"} \subseteq Range(sections)
               /\ g_out.ret[1].kind = "title"

C18_Witness ==
    /\ g_op = "generate"
    /\ Len(g_in.work_items) = MaxItems
    /\ SectionsOf(g_out.ret) = SectionOrder

\* A document for an empty work item list has the three fixed sections.
C18_EmptyListWitness ==
    /\ g_op = "generate"
    /\ g_in.work_items = <<>>
    /\ g_in.releases = <<>>
    /\ g_in.contributors = {}
    /\ SectionsOf(g_out.ret) = <<"Title", "Summary", "Changelog">>

----------------------------------------------------------------------------
(* Properties of the gateway operations, continued (SpecClient). *)

\* The patterns of a system account, as the claim lists them.
SystemAccountMarks ==
    {SYSTEM_ACCOUNT_PATTERNS[1], SYSTEM_ACCOUNT_PATTERNS[2], <<"<">>, <<">">>}

HasSystemMark(name) == \E mark \in SystemAccountMarks : Contains(name, mark)

\* The display names of the revisions of a history, the empty ones left out.
DisplayNames(resp) ==
    {Get(resp.value[i].revisedBy.displayName) :
        i \in {j \in 1..Len(resp.value) :
                 /\ resp.value[j].revisedBy.tag = "object"
                 /\ ~IsNone(resp.value[j].revisedBy.displayName)
                 /\ Get(resp.value[j].revisedBy.displayName) # <<>>}}

\* C19: no name returned by get_work_item_contributors contains a system
\* account pattern, and every non-empty revised-by display name of an id
\* whose history was processed without failure that contains no pattern is
\* returned.
C19_NoSystemAccounts ==
    c_op = "get_work_item_contributors" =>
        /\ ~c_out.raised
        /\ \A name \in c_out.ret : ~HasSystemMark(name)
        /\ \A id \in Range(c_in.ids) :
              ~HistoryFails(c_in.history[id]) =>
                  \A name \in DisplayNames(c_in.history[id]) :
                      ~HasSystemMark(name) => name \in c_out.ret

C19_Witness ==
    /\ c_op = "get_work_item_contributors"
    /\ \E id \in Range(c_in.ids) :
          /\ ~HistoryFails(c_in.history[id])
          /\ DisplayNames(c_in.history[id]) = {Alice, AliceWithAddress}
    /\ c_out.ret = {Alice}

\* The production timestamp of a release with the given environments: the
\* timestamp of the last step of the environment named as the production
\* environment, absent without such an environment or without steps in it.
ProductionTimestamp(environments) ==
    LET named == {i \in 1..Len(environments) :
                     environments[i].name = TestClient.production_environment}
    IN  IF named = {}
        THEN None
        ELSE LET env == environments[CHOOSE i \in named : TRUE]
             IN  IF env.deploySteps = <<>>
                 THEN None
                 ELSE env.deploySteps[Len(env.deploySteps)].lastModifiedOn

\* C20: the production timestamp of a classic release is the timestamp of the
\* last deployment step of the environment with the configured production
\* name; it is absent when no environment has that name or the named
\* environment has no steps; other environments contribute nothing.
C20_ProductionTimestamp ==
    /\ c_op = "_extract_prod_deployment_time" =>
          /\ ~c_out.raised
          /\ c_out.ret = ProductionTimestamp(c_in.environments)
    /\ (c_op = "get_releases" /\ c_in.classic_resp.kind = "ok") =>
          /\ ~c_out.raised
          /\ Len(c_out.ret) = Len(c_in.classic_resp.value)
          /\ \A i \in 1..Len(c_out.ret) :
                c_out.ret[i].prod_deploy_time =
                    ProductionTimestamp(c_in.classic_resp.value[i].environments)

C20_Witness ==
    /\ c_op = "_extract_prod_deployment_time"
    /\ c_in.environments =
          <<[name |-> "QA", deploySteps |-> <<[lastModifiedOn |-> Some(December1)]>>],
            [name |-> "PROD", deploySteps |-> <<[lastModifiedOn |-> Some(December1)],
                                                [lastModifiedOn |-> Some(November6)]>>]>>
    /\ c_out.ret = Some(November6)

\* C21: the iteration label joins the distinct iteration paths other than
\* "N/A" of all work items, each once, in descending lexical order, and is
\* "N/A" for an empty list and for a list whose paths are all "N/A".
C21_IterationLabel ==
    g_op = "_extract_iterations" =>
        LET paths == {g_in.work_items[i].iteration_path :
                         i \in 1..Len(g_in.work_items)} \ {<<"N", "/", "A">>}
            label == g_out.ret
        IN  /\ ~g_out.raised
            /\ paths = {} => label = <<<<"N", "/", "A">>>>
            /\ paths # {} =>
                  /\ Range(label) = paths
                  /\ Len(label) = Cardinality(paths)
                  /\ \A i, j \in 1..Len(label) : i < j => StrLess(label[j], label[i])

C21_Witness ==
    /\ g_op = "_extract_iterations"
    /\ Len(g_in.work_items) = 2
    /\ g_in.work_items[1].iteration_path = Sprint10
    /\ g_in.work_items[2].iteration_path = Sprint2
    /\ g_out.ret = <<Sprint2, Sprint10>>

\* The lines of one kind of a document, in order.
LinesOfKind(doc, kind) == SelectSeq(doc, LAMBDA line : line.kind = kind)

\* C22: with a non-empty release list the Binaries table has one row per
\* release, the rows ascend by microservice name, and the Summary's count of
\* microservices released is the number of rows; a microservice released
\* twice has two rows and counts twice.
C22_BinariesRows ==
    (g_op = "generate" /\ g_in.releases # <<>>) =>
        /\ ~g_out.raised
        /\ LET rows == LinesOfKind(g_out.ret, "binary")
               rels == g_in.releases
               counts == LinesOfKind(g_out.ret, "microservices released")
           IN  /\ Len(rows) = Len(rels)
               /\ \A k \in 1..Len(rels) :
                     Cardinality({i \in 1..Len(rows) :
                                     /\ rows[i].microservice = rels[k].microservice
                                     /\ rows[i].version = rels[k].version}) =
                     Cardinality({i \in 1..Len(rels) :
                                     /\ rels[i].microservice = rels[k].microservice
                                     /\ rels[i].version = rels[k].version})
               /\ \A i, j \in 1..Len(rows) :
                     i < j => ~StrLess(rows[j].microservice, rows[i].microservice)
               /\ Len(counts) = 1
               /\ counts[1].count = Len(rows)

C22_Witness ==
    /\ g_op = "generate"
    /\ Len(g_in.releases) = 2
    /\ g_in.releases[1].microservice = Svc(2)
    /\ g_in.releases[2].microservice = Svc(1)
    /\ LinesOfKind(g_out.ret, "binary")[1].microservice = Svc(1)
    /\ LinesOfKind(g_out.ret, "binary")[2].microservice = Svc(2)
    /\ LinesOfKind(g_out.ret, "microservices released")[1].count = 2

\* A microservice released twice has two rows.
C22_SameServiceWitness ==
    /\ g_op = "generate"
    /\ Len(g_in.releases) = 2
    /\ g_in.releases[1].microservice = g_in.releases[2].microservice
    /\ Len(LinesOfKind(g_out.ret, "binary")) = 2

\* The icons of the five types of the fixed order, and of the eight types of
\* the icon table.
OrderedTypeIcons ==
    (Bug :> "bug") @@ (Epic :> "blue book") @@ (Feature :> "sparkles")
        @@ (UserStory :> "memo") @@ (Task :> "wrench")

TableTypeIcons ==
    OrderedTypeIcons @@ (Issue :> "warning") @@ (ProductBacklogItem :> "clipboard")
        @@ (Impediment :> "construction")

\* Every group header of a document shows the number of input items of its
\* type and the icon that icons has for the type, the fallback icon for a
\* type that icons does not have.
GroupHeadersShow(doc, items, icons) ==
    \A i \in 1..Len(doc) :
        doc[i].kind = "group" =>
            /\ doc[i].count =
                  Cardinality({k \in 1..Len(items) : items[k].type = doc[i].type})
            /\ doc[i].count > 0
            /\ doc[i].emoji = (IF Get(doc[i].type) \in DOMAIN icons
                               THEN icons[Get(doc[i].type)]
                               ELSE "pushpin")

\* C23 as stated: every changelog group header shows the item count of its
\* group and an icon, the fixed icon of the type for Bug, Epic, Feature, User
\* Story and Task, the fallback icon for every other type.
C23_IconsOfFiveKnownTypes ==
    /\ g_op \in {"generate", "_add_changelog_section"} =>
          /\ ~g_out.raised
          /\ GroupHeadersShow(g_out.ret, g_in.work_items, OrderedTypeIcons)
    /\ g_op = "_get_work_item_type_emoji" =>
          g_out.ret = (IF g_in.work_type \in DOMAIN OrderedTypeIcons
                       THEN OrderedTypeIcons[g_in.work_type]
                       ELSE "pushpin")

\* C23 as the code has it: Issue, Product Backlog Item and Impediment have a
\* fixed icon of their own too; the fallback icon is for the types outside
\* these eight.
C23_IconsOfEightTableTypes ==
    /\ g_op \in {"generate", "_add_changelog_section"} =>
          /\ ~g_out.raised
          /\ GroupHeadersShow(g_out.ret, g_in.work_items, TableTypeIcons)
    /\ g_op = "_get_work_item_type_emoji" =>
          g_out.ret = (IF g_in.work_type \in DOMAIN TableTypeIcons
                       THEN TableTypeIcons[g_in.work_type]
                       ELSE "pushpin")

C23_Witness ==
    /\ g_op = "_add_changelog_section"
    /\ Len(g_in.work_items) = 2
    /\ LinesOfKind(g_out.ret, "group") =
          <<[kind |-> "group", emoji |-> "pushpin", type |-> Some(Chore), count |-> 1],
            [kind |-> "group", emoji |-> "warning", type |-> Some(Issue), count |-> 1]>>

----------------------------------------------------------------------------
(* Properties of one run of main, continued (Spec). *)

\* C24: a run whose command line has no notes-field option uses the notes
\* field Custom.Notes: that is the field every request to the detail
\* endpoint asks for, and the field of the configuration of the run.
C24_DefaultNotesFieldIsCustomNotes ==
    /\ \A i \in 1..Len(requests) :
          requests[i].endpoint = "workitems" =>
              requests[i].arg.fields[Len(requests[i].arg.fields)] = "Custom.Notes"
    /\ ~IsNone(config) => Get(config).notes_field = "Custom.Notes"

----------------------------------------------------------------------------
(* Properties of the report generator fed by the gateway (SpecGen). *)

\* C25: every Release of the build tier has no production timestamp and has
\* the build number as its version, so the report generated from an answer
\* of the build tier shows the release date "Unreleased".
C25_BuildTierUnreleased ==
    (g_op = "generate" /\ "builds_resp" \in DOMAIN g_in) =>
        /\ \A i \in 1..Len(g_in.releases) : g_in.releases[i].prod_deploy_time = <<>>
        /\ g_in.builds_resp.kind = "ok" =>
              /\ Len(g_in.releases) = Len(g_in.builds_resp.value)
              /\ \A i \in 1..Len(g_in.releases) :
                    g_in.builds_resp.value[i].buildNumber # <<>> =>
                        g_in.releases[i].version = g_in.builds_resp.value[i].buildNumber[1]
        /\ ~g_out.raised
        /\ LinesOfKind(g_out.ret, "release date") =
              <<[kind |-> "release date", value |-> [text |-> "Unreleased"]]>>

C25_Witness ==
    /\ g_op = "generate"
    /\ "builds_resp" \in DOMAIN g_in
    /\ g_in.builds_resp.kind = "ok"
    /\ Len(g_in.releases) = MaxReleases
    /\ LinesOfKind(g_out.ret, "binary")[1].version = "20251106.1"
    /\ LinesOfKind(g_out.ret, "release date")[1].value = [text |-> "Unreleased"]

----------------------------------------------------------------------------
(* Properties of the gateway operations: the two tiers (SpecClient). *)

\* The positions of the requests of a call that go to one endpoint.
RequestsTo(reqs, endpoint) == {i \in 1..Len(reqs) : reqs[i].endpoint = endpoint}

\* C26: get_releases issues the build-tier request exactly when the classic
\* tier raised, and after the classic request; a classic tier that succeeds
\* with an empty list gives the empty list without a build-tier request; a
\* call issues at most two requests.
C26_BuildTierOnlyAfterClassicError ==
    c_op = "get_releases" =>
        /\ Len(c_out.reqs) <= 2
        /\ RequestsTo(c_out.reqs, "releases") = {1}
        /\ RequestsTo(c_out.reqs, "builds") =
              (IF c_in.classic_resp.kind # "ok" THEN {2} ELSE {})
        /\ (c_in.classic_resp.kind = "ok" /\ c_in.classic_resp.value = <<>>) =>
              ~c_out.raised /\ c_out.ret = <<>>

C26_Witness ==
    /\ c_op = "get_releases"
    /\ c_in.classic_resp.kind = "ok"
    /\ c_in.classic_resp.value = <<>>
    /\ c_in.builds_resp.kind = "ok"
    /\ c_in.builds_resp.value # <<>>
    /\ c_out.ret = <<>>
    /\ Len(c_out.reqs) = 1

\* The fallback: a failing classic tier is followed by the build-tier request.
C26_FallbackWitness ==
    /\ c_op = "get_releases"
    /\ c_in.classic_resp.kind = "url_error"
    /\ c_in.builds_resp.kind = "ok"
    /\ Len(c_out.ret) = MaxReleases
    /\ c_out.reqs[2].endpoint = "builds"

\* C27: generate returns a document without raising for every work item list
\* that get_work_item_details can produce, the lists included in which some
\* items have no identifier or no type and others have them.
C27_GenerateTotalOnFetchedItems ==
    g_op = "generate after get_work_item_details" =>
        /\ ~g_out.raised
        /\ g_out.ret[1].kind = "title"

\* C28: generate leaves its arguments unchanged and its output does not
\* depend on the input order: with pairwise distinct identifiers and
\* pairwise distinct microservice names, a permutation of the work item list
\* and of the release list gives the identical document.
C28_OrderIndependent ==
    g_op = "generate twice" =>
        /\ ~g_out.raised
        /\ g_out.ret[1] = g_out.ret[2]
        /\ g_in.work_items_after = g_in.work_items
        /\ g_in.releases_after = g_in.releases
        /\ g_in.permuted_work_items_after = g_in.permuted_work_items
        /\ g_in.permuted_releases_after = g_in.permuted_releases

C28_Witness ==
    /\ g_op = "generate twice"
    /\ Len(g_in.work_items) = MaxItems
    /\ g_in.permuted_work_items # g_in.work_items
    /\ \A i \in 1..Len(g_in.work_items) : g_in.work_items[i].notes # <<>>
    /\ Len(g_in.releases) = 2
    /\ g_in.permuted_releases # g_in.releases
    /\ g_out.ret[1] = g_out.ret[2]
    /\ Len(LinesOfKind(g_out.ret[2], "instruction")) = MaxItems
    /\ Len(LinesOfKind(g_out.ret[2], "binary")) = 2

\* The position of the group header that an item line of a document is
\* under: the last group header before it, 0 without one.
GroupHeaderOf(doc, i) ==
    LET headers == {j \in 1..(i - 1) : doc[j].kind = "group"}
    IN  IF headers = {} THEN 0 ELSE CHOOSE j \in headers : \A k \in headers : k <= j

RECURSIVE SumOfCounts(_)
SumOfCounts(lines) ==
    IF lines = <<>> THEN 0 ELSE Head(lines).count + SumOfCounts(Tail(lines))

\* C29: the changelog of a document of generate is a partition of the input
\* work items: each is listed once, under the group of its type; the count
\* of a group header is the number of items under it; the counts of the
\* breakdown sum to the total of the Summary, the length of the input list.
C29_ChangelogPartition ==
    g_op = "generate" =>
        LET doc == g_out.ret
            items == g_in.work_items
            listed == {i \in 1..Len(doc) : doc[i].kind = "item"}
        IN  /\ ~g_out.raised
            /\ Cardinality(listed) = Len(items)
            /\ \A k \in 1..Len(items) :
                  \E i \in listed :
                      /\ doc[i].id = items[k].id
                      /\ doc[i].title = items[k].title
                      /\ GroupHeaderOf(doc, i) # 0
                      /\ doc[GroupHeaderOf(doc, i)].type = items[k].type
                      /\ \A j \in listed : doc[j].id = items[k].id => j = i
            /\ \A h \in 1..Len(doc) :
                  doc[h].kind = "group" =>
                      doc[h].count = Cardinality({i \in listed : GroupHeaderOf(doc, i) = h})
            /\ SumOfCounts(LinesOfKind(doc, "breakdown")) = Len(items)
            /\ LinesOfKind(doc, "total work items") =
                  <<[kind |-> "total work items", count |-> Len(items)]>>

C29_Witness ==
    /\ g_op = "generate"
    /\ ~g_out.raised
    /\ Len(g_in.work_items) = MaxItems
    /\ g_in.work_items[1].type = Some(Task)
    /\ g_in.work_items[2].type = Some(Bug)
    /\ Len(LinesOfKind(g_out.ret, "group")) = 2
    /\ SumOfCounts(LinesOfKind(g_out.ret, "breakdown")) = MaxItems

----------------------------------------------------------------------------
(* Properties of the gateway operations: the parent of a work item *)
(* (SpecClient).                                                   *)

\* The identifier at the end of the URL of the parent relation of a relation
\* list, absent for a list without one, an empty list and a missing list.
ParentIdOf(relations) ==
    LET links == IF relations = <<>> THEN <<>> ELSE relations[1]
        parents == {i \in 1..Len(links) :
                       links[i].rel = "System.LinkTypes.Hierarchy-Reverse"}
    IN  IF parents = {}
        THEN <<>>
        ELSE LET url == links[CHOOSE i \in parents : \A j \in parents : i <= j].url
             IN  <<url[Len(url)]>>

\* C30: the gateway client offers _extract_parent_id(relations), which
\* returns the identifier at the end of the URL of the Hierarchy-Reverse
\* relation of the list, and absent when the list has none, is empty or is
\* missing.
C30_ExtractParentId ==
    c_op = "_extract_parent_id" =>
        /\ ~c_out.raised
        /\ c_out.ret = ParentIdOf(c_in.relations)

====
